---------------------------- MODULE Spec2Model ----------------------------
(***************************************************************************)
(* Differential-loading post-processing of one webpack build event, as    *)
(* done by buildWebpackBrowser (build_angular/src/browser/index.ts).      *)
(*                                                                         *)
(* File names are sequences of tokens ("main", "-es2015", ".js"), so that  *)
(* the string operations of the source (startsWith, endsWith, the suffix   *)
(* regular expressions) are computed rather than assumed.                  *)
(***************************************************************************)
EXTENDS Integers, Sequences, FiniteSets, Bags, TLC

VARIABLES
    pc,                   \* position of the build-event handler
    options,              \* the builder options and derived flags of this build
    emittedFiles,         \* buildEvent.emittedFiles
    files,                \* pass-through files (index.ts:323)
    moduleFiles,          \* index.ts:322
    noModuleFiles,        \* index.ts:321
    actions,              \* index.ts:367
    mainChunkId,          \* index.ts:366
    workerReplacements,   \* index.ts:368
    seen,                 \* index.ts:369
    unlinked,             \* fs.unlinkSync calls, in order
    processActions,       \* index.ts:465
    processRuntimeAction, \* index.ts:466 (<<>> when undefined)
    processResults,       \* index.ts:467
    runtimeOptions,       \* index.ts:491 (<<>> until built)
    executor,             \* BundleActionExecutor: state and calls received
    pending,              \* indices of processActions not yet delivered
    inlineActions,        \* index.ts:507
    processedFiles,       \* index.ts:508
    inlinePending,        \* indices of inlineActions not yet delivered
    hasErrors,            \* index.ts:546
    localized,            \* files written into the locale output directories
    copyIgnore,           \* ignore list of the bulk copy, <<>> until it runs
    warnings,             \* webpackStats.warnings
    errors,               \* webpackStats.errors
    budgetFailures,       \* what checkBudgets returned
    postOptions,          \* the options read after the budget check, <<>> until read
    localeIdx,            \* next entry of outputPaths in the index loop
    indexWritten,         \* locales whose index step completed
    assetsCopied,         \* the asset copy of index.ts:703 completed
    stages,               \* stages entered, in order
    thrown,               \* the exception raised by a collaborator, <<>> if none
    result,               \* what the handler produced
    pool,                 \* the executor's units, queue, results and cache
    poolLog,              \* the executor's calls, dispatches and deliveries
    allowedDepedencies,   \* common-js-usage-warn-plugin.ts:40
    shownWarnings,        \* common-js-usage-warn-plugin.ts:35
    compilations,         \* compilations the compiler created so far
    compilationWarnings,  \* warnings of the current compilation, in order
    modulesLeft,          \* modules finishModules has still to visit
    module,               \* the module the loop visits (<<>> before the first)
    addWarningCalls,      \* bag of the texts given to addWarning so far
    initOptions,          \* what initialize was called with (index.ts:162-168)
    initPc,               \* position of initialize
    initDone,             \* the steps of initialize that completed
    outputDir,            \* the output directory on disk
    initResult,           \* what initialize produced
    statsInput,           \* the stats json and stats config given to the stats functions
    statsReport,          \* what they returned and what was logged (<<>> before)
    inputFileSystem,      \* webpack's input file system: what statSync finds at a path
    hostCall              \* the last call on the input host and its outcome

vars == << pc, options, emittedFiles, files, moduleFiles, noModuleFiles, actions,
           mainChunkId, workerReplacements, seen, unlinked, processActions,
           processRuntimeAction, processResults, runtimeOptions, executor, pending,
           inlineActions,
           processedFiles, inlinePending, hasErrors, localized, copyIgnore,
           warnings, errors, budgetFailures, postOptions, localeIdx, indexWritten,
           assetsCopied, stages, thrown, result, pool, poolLog,
           allowedDepedencies, shownWarnings, compilations, compilationWarnings,
           modulesLeft, module, addWarningCalls,
           initOptions, initPc, initDone, outputDir, initResult,
           statsInput, statsReport, inputFileSystem, hostCall >>

-----------------------------------------------------------------------------
(* Bounds *)

MaxFiles == 2
MaxBreaches == 2
MaxList == 3
MaxPool == 2
MaxBatch == 3
MaxCalls == 2

-----------------------------------------------------------------------------
(* Values *)

Undefined == "undefined"
\* webpackStats.outputPath, as path tokens: the directory of most builds, and
\* one whose name carries a version token.
OutputPath == <<"dist", "/">>
VersionedOutputPath == <<"app", "-es2015", "/">>

Es20Tokens == {"-es2015", "-es2017"}
EsNextTokens == {"-esnext"}

\* The emitted-file records a bundler run can hand over.
EmittedFile(file, name, id, extension, asset) ==
    [file |-> file, name |-> name, id |-> id, extension |-> extension, asset |-> asset]

FileUniverse ==
    { EmittedFile(<<"runtime", "-es2015", ".js">>, "runtime", "0", ".js", FALSE),
      EmittedFile(<<"runtime", "-lazy", "-es2015", ".js">>, Undefined, "7", ".js", FALSE),
      EmittedFile(<<"main", "-es2015", ".js">>, "main", "1", ".js", FALSE),
      EmittedFile(<<"vendor", "-es2015", ".js">>, "vendor", "2", ".js", FALSE),
      EmittedFile(<<"polyfills", "-es2015", ".js">>, "polyfills", "3", ".js", FALSE),
      EmittedFile(<<"polyfills", "-es5", "-es2015", ".js">>, "polyfills-es5", "4", ".js", FALSE),
      EmittedFile(<<"styles", ".css">>, "styles", "5", ".css", FALSE),
      EmittedFile(<<"scripts", ".js">>, "scripts", "6", ".js", FALSE),
      EmittedFile(<<"0", "-es2015", ".worker", ".js">>, Undefined, Undefined, ".js", TRUE),
      EmittedFile(<<"favicon", ".ico">>, Undefined, Undefined, ".ico", TRUE) }

\* The emitted files of the builds followed through the whole handler: one file
\* of every kind the stages after classification treat differently.
PipelineFiles ==
    { f \in FileUniverse : f.name \notin {"scripts"} /\ f.extension # ".ico" }

\* The emitted files of the builds followed through the classifier alone.
ClassifierFiles == FileUniverse

\* i18n.inlineLocales of a build that inlines translations.
InlineLocales == <<"fr", "de">>

scriptsEntryPointName == {"scripts"}

SeqsUpTo(S, n) == UNION { [1..k -> S] : k \in 0..n }

-----------------------------------------------------------------------------
(* String operations on token sequences *)

StartsWith(s, prefix) ==
    /\ Len(s) >= Len(prefix)
    /\ SubSeq(s, 1, Len(prefix)) = prefix

EndsWith(s, suffix) ==
    /\ Len(s) >= Len(suffix)
    /\ SubSeq(s, Len(s) - Len(suffix) + 1, Len(s)) = suffix

\* String.prototype.replace with a non-global pattern: the first match only.
RECURSIVE ReplaceFirst(_, _, _)
ReplaceFirst(s, matching, repl) ==
    IF s = <<>> THEN <<>>
    ELSE IF Head(s) \in matching THEN repl \o Tail(s)
    ELSE <<Head(s)>> \o ReplaceFirst(Tail(s), matching, repl)

\* file.replace(/\-(es20\d{2}|esnext)/, '-es5')
ToEs5Name(s) == ReplaceFirst(s, Es20Tokens \cup EsNextTokens, <<"-es5">>)

\* file.replace(/\-es20\d{2}/, '')
StripEs20(s) == ReplaceFirst(s, Es20Tokens, <<>>)

\* file.file.startsWith('polyfills-es5')
IsEs5Polyfills(file) == StartsWith(file.file, <<"polyfills", "-es5">>)

\* file.file.startsWith('polyfills-es20')
IsEs2015Polyfills(file) ==
    /\ Len(file.file) >= 2
    /\ file.file[1] = "polyfills"
    /\ file.file[2] \in Es20Tokens

\* file.file.startsWith('runtime')
IsRuntimeFile(file) == StartsWith(file.file, <<"runtime">>)

\* file.file.endsWith('.worker.js')
IsWorkerFile(file) == EndsWith(file.file, <<".worker", ".js">>)

PathJoin(dir, file) == dir \o file

\* path.basename: what follows the last separator.
RECURSIVE PathBasename(_)
PathBasename(p) ==
    IF \E i \in DOMAIN p : p[i] = "/" THEN PathBasename(Tail(p)) ELSE p

PathRelative(dir, p) ==
    IF StartsWith(p, dir) THEN SubSeq(p, Len(dir) + 1, Len(p)) ELSE <<"../">> \o p

MapOf(filename) == filename \o <<".map">>

-----------------------------------------------------------------------------
(* Classification of the emitted files (index.ts:366-463) *)

\* The options every action shares (index.ts:358-364).
ActionOptions(opts) ==
    [ sourceMaps |-> opts.sourceMap,
      integrityAlgorithm |-> IF opts.subresourceIntegrity THEN "sha384" ELSE Undefined ]

ClassifierInit ==
    [ files |-> <<>>, moduleFiles |-> <<>>, noModuleFiles |-> <<>>, actions |-> <<>>,
      mainChunkId |-> Undefined, workerReplacements |-> <<>>, seen |-> {},
      unlinked |-> <<>> ]

\* The worker branch of the loop body (index.ts:372-385): the state after it.
RecordWorker(st, file) ==
    [st EXCEPT !.workerReplacements = Append(@, <<file.file, ToEs5Name(file.file)>>)]

\* An asset test that lets every asset through.
SkipsNoAsset(file) == FALSE

\* Whether the loop body leaves at the asset test (index.ts:382-384).
SkipsAsAsset(file) == file.asset /\ ~IsWorkerFile(file)

\* index.ts:388-391
IsPassThrough(file) ==
    \/ file.extension # ".js"
    \/ (file.name # Undefined /\ file.name \in scriptsEntryPointName)

\* A choice in which the first of the two names wins.
NextMainChunkIdFirstNamed(current, file) ==
    IF current = Undefined /\ file.name \in {"vendor", "main"}
    THEN file.id
    ELSE current

\* index.ts:405-408
NextMainChunkId(current, file) ==
    IF file.name = "vendor" \/ (current = Undefined /\ file.name = "main")
    THEN file.id
    ELSE current

\* The action recorded for a file (index.ts:419-451).
ActionFor(opts, file) ==
    LET es5Polyfills == IsEs5Polyfills(file)
        joined == PathJoin(opts.outputPath, file.file)
    IN  [ filename |-> IF es5Polyfills THEN StripEs20(joined) ELSE joined,
          map |-> ActionOptions(opts).sourceMaps,
          name |-> file.id,
          runtime |-> IsRuntimeFile(file),
          ignoreOriginal |-> es5Polyfills,
          optimizeOnly |-> IsEs2015Polyfills(file),
          sourceMaps |-> ActionOptions(opts).sourceMaps,
          integrityAlgorithm |-> ActionOptions(opts).integrityAlgorithm ]

\* The files removed for a file (index.ts:422-434), in order.
UnlinksFor(opts, file) ==
    IF IsEs5Polyfills(file)
    THEN (IF ActionOptions(opts).sourceMaps
          THEN <<MapOf(PathJoin(opts.outputPath, file.file))>> ELSE <<>>)
         \o <<PathJoin(opts.outputPath, file.file)>>
    ELSE <<>>

\* A nomodule entry that keeps the emitted file name.
NoModuleEntryUnrenamed(file) == file

\* index.ts:458-462
NoModuleEntry(file) ==
    [file EXCEPT !.file = IF IsEs5Polyfills(file) THEN StripEs20(file.file)
                          ELSE ToEs5Name(file.file)]

\* A classifier without the check for repeated paths.
AlreadySeenNever(st, file) == FALSE

\* Whether a path was already handled (index.ts:399-403).
AlreadySeen(st, file) == file.file \in st.seen

\* One iteration of the loop over emittedFiles (index.ts:370-463).
ClassifyFile(opts, st, file) ==
    IF SkipsAsAsset(file) THEN st
    ELSE
      LET st1 == IF file.asset THEN RecordWorker(st, file) ELSE st
      IN  IF IsPassThrough(file) THEN [st1 EXCEPT !.files = Append(@, file)]
          ELSE IF AlreadySeen(st1, file) THEN st1
          ELSE [ st1 EXCEPT
                   !.seen = @ \cup {file.file},
                   !.mainChunkId = NextMainChunkId(@, file),
                   !.moduleFiles = IF IsEs5Polyfills(file) THEN @ ELSE Append(@, file),
                   !.unlinked = @ \o UnlinksFor(opts, file),
                   !.actions = Append(@, ActionFor(opts, file)),
                   !.noModuleFiles = IF IsEs2015Polyfills(file) THEN @
                                     ELSE Append(@, NoModuleEntry(file)) ]

RECURSIVE ClassifyFrom(_, _, _)
ClassifyFrom(opts, st, fs) ==
    IF fs = <<>> THEN st
    ELSE ClassifyFrom(opts, ClassifyFile(opts, st, Head(fs)), Tail(fs))

Classify(opts, fs) == ClassifyFrom(opts, ClassifierInit, fs)

-----------------------------------------------------------------------------
(* Partition of the actions (index.ts:465-476) *)

\* index.ts:471
IsDeferredRuntime(action) ==
    action.integrityAlgorithm # Undefined /\ action.runtime

\* An action submitted without the worker replacements.
WithoutReplacements(action, repl) == action @@ [replacements |-> <<>>]

\* { replacements: workerReplacements, ...action }
WithReplacements(action, repl) == action @@ [replacements |-> repl]

RECURSIVE PartitionFrom(_, _, _)
PartitionFrom(acts, repl, acc) ==
    IF acts = <<>> THEN acc
    ELSE LET a == Head(acts)
         IN  PartitionFrom(Tail(acts), repl,
                IF IsDeferredRuntime(a)
                THEN [acc EXCEPT !.processRuntimeAction = <<a>>]
                ELSE [acc EXCEPT !.processActions = Append(@, WithReplacements(a, repl))])

Partition(acts, repl) ==
    PartitionFrom(acts, repl, [processActions |-> <<>>, processRuntimeAction |-> <<>>])

-----------------------------------------------------------------------------
(* The bundle processor and the action executor, as seen by the builder *)

\* The artifact a processed bundle reports: its file and, with source maps, its map.
Artifact(filename, withMap) ==
    [filename |-> filename, map |-> IF withMap THEN <<MapOf(filename)>> ELSE <<>>]

\* process(options): the result of one bundle processing action. The original
\* artifact is absent for ignoreOriginal, the downlevel one for optimizeOnly.
Process(action) ==
    [ name |-> action.name,
      original |-> IF action.ignoreOriginal THEN <<>>
                   ELSE <<Artifact(action.filename, action.map)>>,
      downlevel |-> IF action.optimizeOnly THEN <<>>
                    ELSE <<Artifact(ToEs5Name(action.filename), action.map)>> ]

\* { ...processRuntimeAction, runtimeData: processResults, ... } (index.ts:491-495)
RuntimeOptions(action, results) == [action |-> action, runtimeData |-> results]

NoExecutor == [state |-> "none", calls |-> <<>>]

\* new BundleActionExecutor(...)
NewExecutor == [state |-> "running", calls |-> <<"new">>]

ExecutorCall(ex, call) == [ex EXCEPT !.calls = Append(@, call)]

\* executor.stop()
ExecutorStop(ex) == [ExecutorCall(ex, "stop") EXCEPT !.state = "stopped"]

\* A finally block that runs only when the try block falls off its end.
FinallyOnNormalEndOnly(ex, how) == IF how = "normal" THEN ExecutorStop(ex) ELSE ex

\* The finally block of index.ts:599-601. how is the way the try block was left:
\* "normal" (fell off its end), "return" or "throw".
Finally(ex, how) == ExecutorStop(ex)

-----------------------------------------------------------------------------
(* Results of the handler *)

\* What can be thrown by a collaborator.
Thrown ==
    { [type |-> "Error", message |-> "failure"],
      [type |-> "string", message |-> "failure"],
      [type |-> "other", message |-> Undefined] }

\* An exception raised at a place of the handler.
Raise(at, err) == <<[at |-> at, err |-> err]>>

AnError == [type |-> "Error", message |-> "failure"]

\* error.message of a caught value.
MessageOf(err) == IF err.type = "Error" THEN err.message ELSE Undefined

\* A mapErrorToMessage that knows Error instances only.
mapErrorToMessageOfErrorsOnly(err) ==
    IF err.type = "Error" THEN err.message ELSE Undefined

\* index.ts:807-817
mapErrorToMessage(err) ==
    IF err.type = "Error" THEN err.message
    ELSE IF err.type = "string" THEN err.message
    ELSE Undefined

NoResult == [kind |-> "none", success |-> FALSE, errorKey |-> FALSE, error |-> <<>>]

\* return { success }
SuccessResult(success) ==
    [kind |-> "value", success |-> success, errorKey |-> FALSE, error |-> <<>>]

\* return { success: false, error }
ErrorResult(error) ==
    [kind |-> "value", success |-> FALSE, errorKey |-> TRUE, error |-> error]

\* The handler's promise rejects: the exception leaves buildWebpackBrowser.
Rejected ==
    [kind |-> "rejected", success |-> FALSE, errorKey |-> FALSE, error |-> <<>>]

-----------------------------------------------------------------------------
(* Locale inlining (index.ts:504-598) *)

\* A setLocale that is set on the actions of every result.
SetLocaleForEveryResult(res, mainId) == TRUE

\* setLocale of the inline actions of a result (index.ts:520, 537).
SetLocaleFor(res, mainId) == res.name = mainId

\* The inline actions derived from one result (index.ts:510-543).
InlineActionsOf(res, mainId) ==
    (IF res.original # <<>>
     THEN << [ filename |-> PathBasename(res.original[1].filename),
               map |-> res.original[1].map # <<>>,
               es5 |-> FALSE,
               setLocale |-> SetLocaleFor(res, mainId) ] >>
     ELSE <<>>)
    \o
    (IF res.downlevel # <<>>
     THEN << [ filename |-> PathBasename(res.downlevel[1].filename),
               map |-> res.downlevel[1].map # <<>>,
               es5 |-> TRUE,
               setLocale |-> SetLocaleFor(res, mainId) ] >>
     ELSE <<>>)

\* The inline actions of results none of which sets the locale.
RECURSIVE InlineActionsWithoutLocale(_)
InlineActionsWithoutLocale(results) ==
    IF results = <<>> THEN <<>>
    ELSE [ i \in DOMAIN InlineActionsOf(Head(results), Head(results).name) |->
             [InlineActionsOf(Head(results), Head(results).name)[i]
                 EXCEPT !.setLocale = FALSE] ]
         \o InlineActionsWithoutLocale(Tail(results))

\* Inline actions that take the first result delivered for the main chunk's.
InlineActionsForFirstResult(results, mainId) ==
    IF results = <<>> THEN <<>>
    ELSE InlineActionsOf(Head(results), Head(results).name)
         \o InlineActionsWithoutLocale(Tail(results))

RECURSIVE InlineActionsFor(_, _)
InlineActionsFor(results, mainId) ==
    IF results = <<>> THEN <<>>
    ELSE InlineActionsOf(Head(results), mainId) \o InlineActionsFor(Tail(results), mainId)

ArtifactFiles(art) ==
    IF art = <<>> THEN {} ELSE {art[1].filename} \cup { art[1].map[i] : i \in DOMAIN art[1].map }

\* A processed-file set that leaves the source maps out.
ProcessedFilesWithoutMaps(results) ==
    { results[i].original[1].filename :
        i \in { k \in DOMAIN results : results[k].original # <<>> } }
    \cup { results[i].downlevel[1].filename :
             i \in { k \in DOMAIN results : results[k].downlevel # <<>> } }

\* The processedFiles set after the loop of index.ts:509-544.
ProcessedFilesFor(results) ==
    UNION { ArtifactFiles(results[i].original) \cup ArtifactFiles(results[i].downlevel)
            : i \in DOMAIN results }

\* The ignore list handed to copyAssets (index.ts:574-577).
IgnoreList(dir, processed) == { PathRelative(dir, f) : f \in processed }

DiagnosticTypes == {"none", "warning", "error"}

-----------------------------------------------------------------------------
(* Bundle statistics (index.ts:603-631) *)

\* webpackStats.chunks?.find(chunk => chunk.id.toString() === result.name):
\* the names of the chunk found, <<>> when there is none.
ChunkNamesFor(fs, id) ==
    IF id # Undefined /\ \E i \in DOMAIN fs : fs[i].id = id
    THEN <<fs[CHOOSE i \in DOMAIN fs :
                /\ fs[i].id = id
                /\ \A j \in DOMAIN fs : fs[j].id = id => i <= j].name>>
    ELSE <<>>

\* generateBundleInfoStats(bundle, chunk)
BundleInfoStat(bundle, names) ==
    [ files |-> <<bundle.filename>> \o bundle.map, names |-> names ]

\* The statistics of the artifacts, in the order of the results.
RECURSIVE BundleInfoStats(_, _)
BundleInfoStats(results, fs) ==
    IF results = <<>> THEN <<>>
    ELSE LET res == Head(results)
             names == ChunkNamesFor(fs, res.name)
         IN  (IF res.original # <<>>
              THEN <<BundleInfoStat(res.original[1], names)>> ELSE <<>>)
             \o (IF res.downlevel # <<>>
                 THEN <<BundleInfoStat(res.downlevel[1], names)>> ELSE <<>>)
             \o BundleInfoStats(Tail(results), fs)

-----------------------------------------------------------------------------
(* Budgets (index.ts:653-677) *)

Severities == {"warning", "error", "unexpected"}

BudgetMessage(i) == <<"budget", i>>

\* A list of breaches as checkBudgets returns it: breach i carries message i.
BreachList(sevs) ==
    [i \in DOMAIN sevs |-> [severity |-> sevs[i], message |-> BudgetMessage(i)]]

\* `budgets: ${message}`
BudgetText(message) == <<"budgets: ">> \o message

\* A loop that records an error-severity breach as a warning.
RECURSIVE BudgetLoopErrorsAsWarnings(_, _, _, _)
BudgetLoopErrorsAsWarnings(failures, i, w, e) ==
    IF i > Len(failures) THEN [warnings |-> w, errors |-> e, threw |-> FALSE]
    ELSE IF failures[i].severity \in {"warning", "error"}
         THEN BudgetLoopErrorsAsWarnings(failures, i + 1,
                                         Append(w, BudgetText(failures[i].message)), e)
    ELSE [warnings |-> w, errors |-> e, threw |-> TRUE]

\* A loop that skips a breach of unexpected severity.
RECURSIVE BudgetLoopSkipsUnexpected(_, _, _, _)
BudgetLoopSkipsUnexpected(failures, i, w, e) ==
    IF i > Len(failures) THEN [warnings |-> w, errors |-> e, threw |-> FALSE]
    ELSE IF failures[i].severity = "warning"
         THEN BudgetLoopSkipsUnexpected(failures, i + 1,
                                        Append(w, BudgetText(failures[i].message)), e)
    ELSE IF failures[i].severity = "error"
         THEN BudgetLoopSkipsUnexpected(failures, i + 1, w,
                                        Append(e, BudgetText(failures[i].message)))
    ELSE BudgetLoopSkipsUnexpected(failures, i + 1, w, e)

\* A loop that assigns a list holding the message instead of pushing it.
RECURSIVE BudgetLoopReplacingLists(_, _, _, _)
BudgetLoopReplacingLists(failures, i, w, e) ==
    IF i > Len(failures) THEN [warnings |-> w, errors |-> e, threw |-> FALSE]
    ELSE IF failures[i].severity = "warning"
         THEN BudgetLoopReplacingLists(failures, i + 1,
                                       <<BudgetText(failures[i].message)>>, e)
    ELSE IF failures[i].severity = "error"
         THEN BudgetLoopReplacingLists(failures, i + 1, w,
                                       <<BudgetText(failures[i].message)>>)
    ELSE [warnings |-> w, errors |-> e, threw |-> TRUE]

\* The loop of index.ts:656-668 from breach i on: the lists when it ends, and
\* whether it ended in assertNever.
RECURSIVE BudgetLoop(_, _, _, _)
BudgetLoop(failures, i, w, e) ==
    IF i > Len(failures) THEN [warnings |-> w, errors |-> e, threw |-> FALSE]
    ELSE IF failures[i].severity = "warning"
         THEN BudgetLoop(failures, i + 1, Append(w, BudgetText(failures[i].message)), e)
    ELSE IF failures[i].severity = "error"
         THEN BudgetLoop(failures, i + 1, w, Append(e, BudgetText(failures[i].message)))
    ELSE [warnings |-> w, errors |-> e, threw |-> TRUE]

\* A statsHasErrors that never reports an error.
statsHasErrorsNever(e) == FALSE

\* stats.ts: statsHasErrors, for stats without children.
statsHasErrors(e) == Len(e) > 0

-----------------------------------------------------------------------------
(* The build-event handler (index.ts:293-761) *)

OptionsOver(outputPaths) ==
    [ isDifferentialLoadingNeeded : BOOLEAN,
      watch : BOOLEAN,
      subresourceIntegrity : BOOLEAN,
      sourceMap : BOOLEAN,
      shouldInline : BOOLEAN,
      outputPath : outputPaths ]

OptionSets == OptionsOver({OutputPath})

\* options.assets?.length, options.index and options.serviceWorker: read for the
\* first time at index.ts:701, and drawn there.
PostOptionSets == [ assets : BOOLEAN, index : BOOLEAN, serviceWorker : BOOLEAN ]

\* ensureOutputPaths (index.ts:319): one output path per inlined locale, or the
\* base output path alone.
OutputLocales(opts) == IF opts.shouldInline THEN InlineLocales ELSE <<"">>

\* index.ts:281
useBundleDownleveling(opts) == opts.isDifferentialLoadingNeeded /\ ~opts.watch

WebpackWarning == <<"webpack", "warning", 0>>
WebpackError == <<"webpack", "error", 0>>

\* webpackStats.warnings of a build event: the compilation's own warnings.
CompilationWarnings == { <<WebpackWarning>> }

classifierVars == << files, moduleFiles, noModuleFiles, actions, mainChunkId,
                     workerReplacements, seen, unlinked >>
transformVars == << processActions, processRuntimeAction, processResults, pending,
                   runtimeOptions >>
inlineVars == << inlineActions, processedFiles, inlinePending, hasErrors, localized,
                 copyIgnore >>
statsVars == << warnings, errors >>
indexVars == << postOptions, localeIdx, indexWritten, assetsCopied >>
poolVars == << pool, poolLog >>
pluginVars == << allowedDepedencies, shownWarnings, compilations, compilationWarnings,
                modulesLeft, module, addWarningCalls >>
initVars == << initOptions, initPc, initDone, outputDir, initResult >>
reportVars == << statsInput, statsReport >>
hostVars == << inputFileSystem, hostCall >>
componentVars == << pluginVars, initVars, reportVars, hostVars >>
besidesPlugin == << initVars, reportVars, hostVars >>
besidesInitialize == << pluginVars, reportVars, hostVars >>
besidesReport == << pluginVars, initVars, hostVars >>
besidesHost == << pluginVars, initVars, reportVars >>

\* No plugin instance applied to a compiler.
PluginIdle ==
    /\ allowedDepedencies = {} /\ shownWarnings = {} /\ compilations = 0
    /\ compilationWarnings = <<>> /\ modulesLeft = 0 /\ module = <<>>
    /\ addWarningCalls = EmptyBag

\* initialize not called.
NoInitOptions ==
    [watch |-> FALSE, assets |-> <<>>, deleteOutputPath |-> FALSE, transform |-> "none"]
InitializeIdle ==
    /\ initOptions = NoInitOptions /\ initPc = "idle" /\ initDone = {}
    /\ outputDir = "present" /\ initResult = <<>>

\* The components outside the build-event handler, none in use.
NoStats == [json |-> [warnings |-> <<>>, children |-> <<>>], colors |-> FALSE]
ReportIdle == statsInput = NoStats /\ statsReport = <<>>

\* No input host created.
NoHostCall == [op |-> "none"]
HostIdle == inputFileSystem = <<>> /\ hostCall = NoHostCall

ComponentsIdle == PluginIdle /\ InitializeIdle /\ ReportIdle /\ HostIdle
IdleBesidesPlugin == InitializeIdle /\ ReportIdle /\ HostIdle
IdleBesidesInitialize == PluginIdle /\ ReportIdle /\ HostIdle
IdleBesidesReport == PluginIdle /\ InitializeIdle /\ HostIdle
IdleBesidesHost == PluginIdle /\ InitializeIdle /\ ReportIdle

\* The executor as the handler sees it: followed through its calls alone.
NoPool == [state |-> "none"]
NoPoolLog ==
    [calls |-> 0, dispatched |-> {}, delivered |-> {}, returned |-> {}, outcome |-> "none"]

\* The handler's locals before the first build event.
InitLocals ==
    /\ pc = "start"
    /\ emittedFiles = <<>>
    /\ files = <<>> /\ moduleFiles = <<>> /\ noModuleFiles = <<>> /\ actions = <<>>
    /\ mainChunkId = Undefined /\ workerReplacements = <<>> /\ seen = {}
    /\ unlinked = <<>>
    /\ processActions = <<>> /\ processRuntimeAction = <<>> /\ processResults = <<>>
    /\ runtimeOptions = <<>>
    /\ executor = NoExecutor /\ pending = {}
    /\ inlineActions = <<>> /\ processedFiles = {} /\ inlinePending = {}
    /\ hasErrors = FALSE /\ localized = {} /\ copyIgnore = <<>>
    /\ warnings = <<>> /\ errors = <<>> /\ budgetFailures = <<>>
    /\ postOptions = <<>> /\ localeIdx = 0 /\ indexWritten = {} /\ assetsCopied = FALSE
    /\ stages = <<>> /\ thrown = <<>> /\ result = NoResult

Init ==
    /\ options \in OptionSets
    /\ InitLocals
    /\ pool = NoPool /\ poolLog = NoPoolLog
    /\ ComponentsIdle

\* A build event without webpack stats (index.ts:295-297): the handler throws.
StatsMissing ==
    /\ pc = "start"
    /\ thrown' = Raise("stats", AnError)
    /\ result' = Rejected
    /\ pc' = "done"
    /\ UNCHANGED << options, emittedFiles, classifierVars, transformVars, executor,
                    inlineVars, statsVars, budgetFailures, indexVars, stages >>
    /\ UNCHANGED << poolVars, componentVars >>

\* A build event with success = false (index.ts:307-317, 760).
BuildFailed ==
    /\ pc = "start"
    /\ \E fs \in SeqsUpTo(PipelineFiles, 1) : emittedFiles' = fs
    /\ errors' = <<WebpackError>>
    /\ \E w \in CompilationWarnings : warnings' = w
    /\ result' = SuccessResult(FALSE)
    /\ pc' = "done"
    /\ UNCHANGED << options, classifierVars, transformVars, executor, inlineVars,
                    budgetFailures, indexVars, stages >>
    /\ UNCHANGED thrown
    /\ UNCHANGED << poolVars, componentVars >>

\* A successful build event with differential loading: classification, the
\* partition of the actions, the executor and the processAll call
\* (index.ts:318-486).
StartDifferential ==
    /\ pc = "start"
    /\ useBundleDownleveling(options)
    /\ \E fs \in SeqsUpTo(PipelineFiles, MaxFiles), w \in CompilationWarnings :
         LET c == Classify(options, fs)
             p == Partition(c.actions, c.workerReplacements)
         IN  /\ emittedFiles' = fs
             /\ warnings' = w
             /\ files' = c.files
             /\ moduleFiles' = c.moduleFiles
             /\ noModuleFiles' = c.noModuleFiles
             /\ actions' = c.actions
             /\ mainChunkId' = c.mainChunkId
             /\ workerReplacements' = c.workerReplacements
             /\ seen' = c.seen
             /\ unlinked' = c.unlinked
             /\ processActions' = p.processActions
             /\ processRuntimeAction' = p.processRuntimeAction
             /\ pending' = DOMAIN p.processActions
    /\ executor' = ExecutorCall(NewExecutor, "processAll")
    /\ stages' = stages \o <<"classify", "transform">>
    /\ pc' = "transform"
    /\ UNCHANGED << options, processResults, inlineVars, errors, budgetFailures,
                    indexVars, result >>
    /\ UNCHANGED thrown
    /\ UNCHANGED << poolVars, componentVars >>
    /\ UNCHANGED runtimeOptions

\* Reading an emitted file fails during classification (index.ts:420): the
\* exception leaves the handler before an executor exists.
StartDifferentialReadFails ==
    /\ pc = "start"
    /\ useBundleDownleveling(options)
    /\ \E fs \in SeqsUpTo(PipelineFiles, MaxFiles) :
         /\ fs # <<>>
         /\ ~SkipsAsAsset(fs[Len(fs)]) /\ ~IsPassThrough(fs[Len(fs)])
         /\ LET c == Classify(options, SubSeq(fs, 1, Len(fs) - 1))
            IN  /\ ~AlreadySeen(c, fs[Len(fs)])
                /\ emittedFiles' = fs
                /\ files' = c.files
                /\ moduleFiles' = IF IsEs5Polyfills(fs[Len(fs)]) THEN c.moduleFiles
                                   ELSE Append(c.moduleFiles, fs[Len(fs)])
                /\ noModuleFiles' = c.noModuleFiles
                /\ actions' = c.actions
                /\ mainChunkId' = NextMainChunkId(c.mainChunkId, fs[Len(fs)])
                /\ workerReplacements' =
                     IF fs[Len(fs)].asset
                     THEN RecordWorker(c, fs[Len(fs)]).workerReplacements
                     ELSE c.workerReplacements
                /\ seen' = c.seen \cup {fs[Len(fs)].file}
                /\ unlinked' = c.unlinked
    /\ thrown' = Raise("read", AnError)
    /\ result' = Rejected
    /\ stages' = stages \o <<"classify">>
    /\ pc' = "done"
    /\ UNCHANGED << options, transformVars, executor, inlineVars, statsVars,
                    budgetFailures, indexVars >>
    /\ UNCHANGED << poolVars, componentVars >>

\* The consumer draws the next result of processAll (index.ts:486-488): the
\* results arrive in completion order.
DrawResult ==
    /\ pc = "transform"
    /\ \E i \in pending :
         /\ processResults' = Append(processResults, Process(processActions[i]))
         /\ pending' = pending \ {i}
    /\ UNCHANGED << pc, options, emittedFiles, classifierVars, processActions,
                    processRuntimeAction, executor, inlineVars, statsVars,
                    budgetFailures, indexVars, stages, result >>
    /\ UNCHANGED thrown
    /\ UNCHANGED << poolVars, componentVars >>
    /\ UNCHANGED runtimeOptions

\* A consumer that swallows the failure and keeps drawing.
DrawFailsAndContinues ==
    /\ pc = "transform"
    /\ \E i \in pending : pending' = pending \ {i}
    /\ thrown' = Raise("processAll", AnError)
    /\ UNCHANGED << pc, options, emittedFiles, classifierVars, processActions,
                    processRuntimeAction, processResults, executor, inlineVars,
                    statsVars, budgetFailures, indexVars, stages, result >>
    /\ UNCHANGED << poolVars, componentVars >>
    /\ UNCHANGED runtimeOptions

\* Drawing a result fails: the exception leaves the try block, the finally
\* block runs and the handler rejects (index.ts:484-488, 599-601).
DrawFails ==
    /\ pc = "transform"
    /\ pending # {}
    /\ thrown' = Raise("processAll", AnError)
    /\ result' = Rejected
    /\ executor' = Finally(executor, "throw")
    /\ pc' = "done"
    /\ UNCHANGED << options, emittedFiles, classifierVars, transformVars, inlineVars,
                    statsVars, budgetFailures, indexVars, stages >>
    /\ UNCHANGED << poolVars, componentVars >>

\* A runtime processing that does not wait for the batch to drain.
StartRuntimeBeforeBatchEnds ==
    /\ pc = "transform"
    /\ processRuntimeAction # <<>>
    /\ runtimeOptions' = <<RuntimeOptions(processRuntimeAction[1], processResults)>>
    /\ stages' = Append(stages, "runtime")
    /\ pc' = "runtime"
    /\ UNCHANGED << options, emittedFiles, classifierVars, processActions,
                    processRuntimeAction, processResults, pending, executor,
                    inlineVars, statsVars, budgetFailures, indexVars, result >>
    /\ UNCHANGED thrown
    /\ UNCHANGED << poolVars, componentVars >>

\* processAll is exhausted and a runtime action was set aside: process() is
\* called with the collected results (index.ts:490-499).
StartRuntime ==
    /\ pc = "transform"
    /\ pending = {}
    /\ processRuntimeAction # <<>>
    /\ runtimeOptions' = <<RuntimeOptions(processRuntimeAction[1], processResults)>>
    /\ stages' = Append(stages, "runtime")
    /\ pc' = "runtime"
    /\ UNCHANGED << options, emittedFiles, classifierVars, processActions,
                    processRuntimeAction, processResults, pending, executor,
                    inlineVars, statsVars, budgetFailures, indexVars, result >>
    /\ UNCHANGED thrown
    /\ UNCHANGED << poolVars, componentVars >>

\* processAll is exhausted and no runtime action was set aside.
BatchComplete ==
    /\ pc = "transform"
    /\ pending = {}
    /\ processRuntimeAction = <<>>
    /\ pc' = "transformed"
    /\ UNCHANGED << options, emittedFiles, classifierVars, transformVars, executor,
                    inlineVars, statsVars, budgetFailures, indexVars, stages, result >>
    /\ UNCHANGED thrown
    /\ UNCHANGED << poolVars, componentVars >>

\* The runtime result arrives and is appended (index.ts:497-499).
RuntimeProcessed ==
    /\ pc = "runtime"
    /\ processResults' = Append(processResults, Process(processRuntimeAction[1]))
    /\ pc' = "transformed"
    /\ UNCHANGED << options, emittedFiles, classifierVars, processActions,
                    processRuntimeAction, pending, executor, inlineVars, statsVars,
                    budgetFailures, indexVars, stages, result >>
    /\ UNCHANGED thrown
    /\ UNCHANGED << poolVars, componentVars >>
    /\ UNCHANGED runtimeOptions

\* Processing the runtime action fails.
RuntimeFails ==
    /\ pc = "runtime"
    /\ thrown' = Raise("process", AnError)
    /\ result' = Rejected
    /\ executor' = Finally(executor, "throw")
    /\ pc' = "done"
    /\ UNCHANGED << options, emittedFiles, classifierVars, transformVars, inlineVars,
                    statsVars, budgetFailures, indexVars, stages >>
    /\ UNCHANGED << poolVars, componentVars >>

\* No translations to inline: the try block ends and the finally block runs
\* (index.ts:504, 599-601).
SkipInline ==
    /\ pc = "transformed"
    /\ ~options.shouldInline
    /\ executor' = Finally(executor, "normal")
    /\ stages' = Append(stages, "budgets")
    /\ pc' = "budgets"
    /\ UNCHANGED << options, emittedFiles, classifierVars, transformVars, inlineVars,
                    statsVars, budgetFailures, indexVars, result >>
    /\ UNCHANGED thrown
    /\ UNCHANGED << poolVars, componentVars >>

\* The inline actions are built from the results and handed to inlineAll
\* (index.ts:507-548).
StartInline ==
    /\ pc = "transformed"
    /\ options.shouldInline
    /\ inlineActions' = InlineActionsFor(processResults, mainChunkId)
    /\ processedFiles' = ProcessedFilesFor(processResults)
    /\ inlinePending' = DOMAIN InlineActionsFor(processResults, mainChunkId)
    /\ executor' = ExecutorCall(executor, "inlineAll")
    /\ stages' = Append(stages, "inline")
    /\ pc' = "inline"
    /\ UNCHANGED << options, emittedFiles, classifierVars, transformVars, hasErrors,
                    localized, copyIgnore, statsVars, budgetFailures, indexVars,
                    result >>
    /\ UNCHANGED thrown
    /\ UNCHANGED << poolVars, componentVars >>

\* Reading a processed file fails while the inline actions are built
\* (index.ts:513): outside the inner try, so the handler rejects.
StartInlineReadFails ==
    /\ pc = "transformed"
    /\ options.shouldInline
    /\ InlineActionsFor(processResults, mainChunkId) # <<>>
    /\ thrown' = Raise("inlineRead", AnError)
    /\ result' = Rejected
    /\ executor' = Finally(executor, "throw")
    /\ stages' = Append(stages, "inline")
    /\ pc' = "done"
    /\ UNCHANGED << options, emittedFiles, classifierVars, transformVars, inlineVars,
                    statsVars, budgetFailures, indexVars >>
    /\ UNCHANGED << poolVars, componentVars >>

\* A consumer that returns at the first error diagnostic.
DrawInlineResultStopsAtError ==
    /\ pc = "inline"
    /\ \E i \in inlinePending, d \in DiagnosticTypes :
         /\ inlinePending' = inlinePending \ {i}
         /\ localized' = localized \cup {inlineActions[i].filename}
         /\ hasErrors' = (hasErrors \/ d = "error")
         /\ IF d = "error"
            THEN /\ result' = SuccessResult(FALSE)
                 /\ executor' = Finally(executor, "return")
                 /\ pc' = "done"
            ELSE UNCHANGED << result, executor, pc >>
    /\ UNCHANGED << options, emittedFiles, classifierVars, transformVars,
                    inlineActions, processedFiles, copyIgnore, statsVars,
                    budgetFailures, indexVars, stages >>
    /\ UNCHANGED thrown
    /\ UNCHANGED << poolVars, componentVars >>

\* The consumer draws the next result of inlineAll and reads its diagnostics
\* (index.ts:548-564). The executor has written the localized file.
DrawInlineResult ==
    /\ pc = "inline"
    /\ \E i \in inlinePending, d \in DiagnosticTypes :
         /\ inlinePending' = inlinePending \ {i}
         /\ localized' = localized \cup {inlineActions[i].filename}
         /\ hasErrors' = (hasErrors \/ d = "error")
    /\ UNCHANGED << pc, options, emittedFiles, classifierVars, transformVars, executor,
                    inlineActions, processedFiles, copyIgnore, statsVars,
                    budgetFailures, indexVars, stages, result >>
    /\ UNCHANGED thrown
    /\ UNCHANGED << poolVars, componentVars >>

\* Drawing an inline result fails: caught at index.ts:583-587.
DrawInlineFails ==
    /\ pc = "inline"
    /\ inlinePending # {}
    /\ \E err \in Thrown :
         /\ thrown' = Raise("inlineAll", err)
         /\ result' = ErrorResult(<<mapErrorToMessage(err)>>)
    /\ executor' = Finally(executor, "return")
    /\ pc' = "done"
    /\ UNCHANGED << options, emittedFiles, classifierVars, transformVars, inlineVars,
                    statsVars, budgetFailures, indexVars, stages >>
    /\ UNCHANGED << poolVars, componentVars >>

\* inlineAll is exhausted and the bulk copy completes (index.ts:566-601).
CopyLocalized ==
    /\ pc = "inline"
    /\ inlinePending = {}
    /\ copyIgnore' = <<IgnoreList(options.outputPath, processedFiles)>>
    /\ IF hasErrors
       THEN /\ result' = SuccessResult(FALSE)
            /\ executor' = Finally(executor, "return")
            /\ pc' = "done"
            /\ UNCHANGED stages
       ELSE /\ executor' = Finally(executor, "normal")
            /\ stages' = Append(stages, "budgets")
            /\ pc' = "budgets"
            /\ UNCHANGED result
    /\ UNCHANGED << options, emittedFiles, classifierVars, transformVars, inlineActions,
                    processedFiles, inlinePending, hasErrors, localized, statsVars,
                    budgetFailures, indexVars >>
    /\ UNCHANGED thrown
    /\ UNCHANGED << poolVars, componentVars >>

\* The bulk copy fails: caught at index.ts:583-587.
CopyLocalizedFails ==
    /\ pc = "inline"
    /\ inlinePending = {}
    /\ \E err \in Thrown :
         /\ thrown' = Raise("copy", err)
         /\ result' = ErrorResult(<<mapErrorToMessage(err)>>)
    /\ executor' = Finally(executor, "return")
    /\ pc' = "done"
    /\ UNCHANGED << options, emittedFiles, classifierVars, transformVars, inlineVars,
                    statsVars, budgetFailures, indexVars, stages >>
    /\ UNCHANGED << poolVars, componentVars >>

\* The budget check and the report of the diagnostics (index.ts:653-677):
\* checkBudgets returns a list of breaches.
CheckBudgets ==
    /\ pc = "budgets"
    /\ \E sevs \in SeqsUpTo(Severities, MaxBreaches) :
         LET failures == BreachList(sevs)
             after == BudgetLoop(failures, 1, warnings, errors)
         IN  /\ budgetFailures' = failures
             /\ warnings' = after.warnings
             /\ errors' = after.errors
             /\ IF after.threw
                THEN /\ thrown' = Raise("assertNever", AnError)
                     /\ result' = Rejected
                     /\ pc' = "done"
                     /\ UNCHANGED stages
                ELSE IF statsHasErrors(after.errors)
                THEN /\ result' = SuccessResult(FALSE)
                     /\ pc' = "done"
                     /\ UNCHANGED << stages, thrown >>
                ELSE /\ pc' = "assets"
                     /\ stages' = Append(stages, "assets")
                     /\ UNCHANGED << result, thrown >>
    /\ UNCHANGED << options, emittedFiles, classifierVars, transformVars, executor,
                    inlineVars, indexVars >>
    /\ UNCHANGED << poolVars, componentVars >>

IsStyleOrScript(x) ==
    x.extension = ".css" \/ (x.name # Undefined /\ x.name \in scriptsEntryPointName)

IsLegacyPolyfillChunk(x) == x.name = "polyfills-es5"

IsNotLegacyPolyfillChunk(x) == x.name # "polyfills-es5"

\* A successful build event without bundle downleveling (index.ts:330-334,
\* 678-680).
StartWithoutDownleveling ==
    /\ pc = "start"
    /\ ~useBundleDownleveling(options)
    /\ \E fs \in SeqsUpTo(PipelineFiles, 1), w \in CompilationWarnings :
         /\ emittedFiles' = fs
         /\ warnings' = w
         /\ IF options.isDifferentialLoadingNeeded
            THEN /\ moduleFiles' = fs
                 /\ files' = SelectSeq(fs, IsStyleOrScript)
                 /\ UNCHANGED noModuleFiles
            ELSE /\ files' = SelectSeq(fs, IsNotLegacyPolyfillChunk)
                 /\ noModuleFiles' = SelectSeq(fs, IsLegacyPolyfillChunk)
                 /\ UNCHANGED moduleFiles
    /\ IF options.shouldInline
       THEN pc' = "i18n" /\ stages' = Append(stages, "inline")
       ELSE pc' = "assets" /\ stages' = Append(stages, "assets")
    /\ UNCHANGED << options, actions, mainChunkId, workerReplacements, seen, unlinked,
                    transformVars, executor, inlineVars, errors, budgetFailures,
                    indexVars, result >>
    /\ UNCHANGED thrown
    /\ UNCHANGED << poolVars, componentVars >>

\* i18nInlineEmittedFiles returns (index.ts:336-350, 682-696).
InlineEmittedFiles ==
    /\ pc = "i18n"
    /\ \E ok \in BOOLEAN :
         IF ok
         THEN pc' = "assets" /\ stages' = Append(stages, "assets") /\ UNCHANGED result
         ELSE pc' = "done" /\ result' = SuccessResult(FALSE) /\ UNCHANGED stages
    /\ UNCHANGED << options, emittedFiles, classifierVars, transformVars, executor,
                    inlineVars, statsVars, budgetFailures, indexVars >>
    /\ UNCHANGED thrown
    /\ UNCHANGED << poolVars, componentVars >>

\* index.ts:701
CopiesAssets(opts, post) == ~opts.watch /\ post.assets

\* The asset copy (index.ts:700-717), skipped or completed.
CopyAssets ==
    /\ pc = "assets"
    /\ \E post \in PostOptionSets :
         /\ postOptions' = <<post>>
         /\ assetsCopied' = CopiesAssets(options, post)
    /\ localeIdx' = 1
    /\ stages' = Append(stages, "index")
    /\ pc' = "index"
    /\ UNCHANGED << options, emittedFiles, classifierVars, transformVars, executor,
                    inlineVars, statsVars, budgetFailures, indexWritten, result >>
    /\ UNCHANGED thrown
    /\ UNCHANGED << poolVars, componentVars >>

\* The asset copy fails (index.ts:714-716).
CopyAssetsFails ==
    /\ pc = "assets"
    /\ \E post \in PostOptionSets : CopiesAssets(options, post)
    /\ \E err \in Thrown :
         /\ thrown' = Raise("assets", err)
         /\ result' = ErrorResult(<<"Unable to copy assets: ", MessageOf(err)>>)
    /\ pc' = "done"
    /\ UNCHANGED << options, emittedFiles, classifierVars, transformVars, executor,
                    inlineVars, statsVars, budgetFailures, indexVars, stages >>
    /\ UNCHANGED << poolVars, componentVars >>

\* One iteration of the loop over outputPaths (index.ts:719-757); after the
\* last one the handler returns { success } (index.ts:760).
LocaleStep ==
    /\ pc = "index"
    /\ localeIdx <= Len(OutputLocales(options))
    /\ indexWritten' = IF postOptions[1].index
                       THEN indexWritten \cup {OutputLocales(options)[localeIdx]}
                       ELSE indexWritten
    /\ localeIdx' = localeIdx + 1
    /\ IF localeIdx = Len(OutputLocales(options))
       THEN result' = SuccessResult(TRUE) /\ pc' = "done"
       ELSE UNCHANGED << result, pc >>
    /\ UNCHANGED << options, emittedFiles, classifierVars, transformVars, executor,
                    inlineVars, statsVars, budgetFailures, postOptions, assetsCopied,
                    stages >>
    /\ UNCHANGED thrown
    /\ UNCHANGED << poolVars, componentVars >>

\* A loop that goes on to the next locale after a failure.
LocaleStepFailsAndContinues ==
    /\ pc = "index"
    /\ localeIdx < Len(OutputLocales(options))
    /\ postOptions[1].index \/ postOptions[1].serviceWorker
    /\ \E err \in Thrown : thrown' = Raise("index", err)
    /\ localeIdx' = localeIdx + 1
    /\ UNCHANGED << options, emittedFiles, classifierVars, transformVars, executor,
                    inlineVars, statsVars, budgetFailures, postOptions, indexWritten,
                    assetsCopied, stages, result, pc >>
    /\ UNCHANGED << poolVars, componentVars >>

\* generateIndex or augmentAppWithServiceWorker fails (index.ts:727-756): the
\* index of the locale is written already when the service worker step fails.
LocaleStepFails ==
    /\ pc = "index"
    /\ localeIdx <= Len(OutputLocales(options))
    /\ \E step \in {"generateIndex", "augmentAppWithServiceWorker"} :
         /\ step = "generateIndex" => postOptions[1].index
         /\ step = "augmentAppWithServiceWorker" => postOptions[1].serviceWorker
         /\ indexWritten' =
              IF step = "augmentAppWithServiceWorker" /\ postOptions[1].index
              THEN indexWritten \cup {OutputLocales(options)[localeIdx]}
              ELSE indexWritten
    /\ \E err \in Thrown :
         /\ thrown' = Raise("index", err)
         /\ result' = ErrorResult(<<mapErrorToMessage(err)>>)
    /\ pc' = "done"
    /\ UNCHANGED << options, emittedFiles, classifierVars, transformVars, executor,
                    inlineVars, statsVars, budgetFailures, postOptions, localeIdx,
                    assetsCopied, stages >>
    /\ UNCHANGED << poolVars, componentVars >>

Next ==
    \/ StatsMissing
    \/ BuildFailed
    \/ StartDifferential
    \/ StartDifferentialReadFails
    \/ StartWithoutDownleveling
    \/ DrawResult
    \/ DrawFails
    \/ StartRuntime
    \/ BatchComplete
    \/ RuntimeProcessed
    \/ RuntimeFails
    \/ SkipInline
    \/ StartInline
    \/ StartInlineReadFails
    \/ DrawInlineResult
    \/ DrawInlineFails
    \/ CopyLocalized
    \/ CopyLocalizedFails
    \/ CheckBudgets
    \/ InlineEmittedFiles
    \/ CopyAssets
    \/ CopyAssetsFails
    \/ LocaleStep
    \/ LocaleStepFails

Spec == Init /\ [][Next]_vars

-----------------------------------------------------------------------------
(* The classifier and the partition, one loop iteration at a time *)

\* The classifier's variables at the start of a loop iteration.
CurrentClassifier ==
    [ files |-> files, moduleFiles |-> moduleFiles, noModuleFiles |-> noModuleFiles,
      actions |-> actions, mainChunkId |-> mainChunkId,
      workerReplacements |-> workerReplacements, seen |-> seen,
      unlinked |-> unlinked ]

afterClassifierVars == << executor, processResults, runtimeOptions, pending, inlineVars, statsVars,
                          budgetFailures, indexVars, stages, thrown, result >>

\* The builds followed through the classifier alone: any output directory.
ClassifierOptionSets == OptionsOver({OutputPath, VersionedOutputPath})

ClassifierInitState ==
    /\ options \in ClassifierOptionSets
    /\ InitLocals
    /\ pool = NoPool /\ poolLog = NoPoolLog
    /\ ComponentsIdle
    /\ useBundleDownleveling(options)
    /\ ~options.shouldInline

\* One iteration of the loop over emittedFiles (index.ts:370-463) for the next
\* emitted file.
ClassifyNextFile ==
    /\ pc \in {"start", "classify"}
    /\ Len(emittedFiles) < MaxList
    /\ \E file \in ClassifierFiles :
         LET c == ClassifyFile(options, CurrentClassifier, file)
         IN  /\ emittedFiles' = Append(emittedFiles, file)
             /\ files' = c.files
             /\ moduleFiles' = c.moduleFiles
             /\ noModuleFiles' = c.noModuleFiles
             /\ actions' = c.actions
             /\ mainChunkId' = c.mainChunkId
             /\ workerReplacements' = c.workerReplacements
             /\ seen' = c.seen
             /\ unlinked' = c.unlinked
    /\ pc' = "classify"
    /\ UNCHANGED << options, processActions, processRuntimeAction >>
    /\ UNCHANGED afterClassifierVars
    /\ UNCHANGED << poolVars, componentVars >>
    /\ UNCHANGED runtimeOptions

\* The loop has ended: the actions are partitioned (index.ts:465-476).
PartitionActions ==
    /\ pc \in {"start", "classify"}
    /\ LET p == Partition(actions, workerReplacements)
       IN  /\ processActions' = p.processActions
           /\ processRuntimeAction' = p.processRuntimeAction
    /\ pc' = "partitioned"
    /\ UNCHANGED << options, emittedFiles, classifierVars >>
    /\ UNCHANGED afterClassifierVars
    /\ UNCHANGED << poolVars, componentVars >>
    /\ UNCHANGED runtimeOptions

ClassifierNext ==
    \/ ClassifyNextFile
    \/ PartitionActions

ClassifierSpec == ClassifierInitState /\ [][ClassifierNext]_vars

-----------------------------------------------------------------------------
(* The action executor: its pool of execution units, its queue and its cache *)

\* The actions handed to the executor: source code and an option list. The
\* first two differ in the order of their options only.
ExecActions ==
    { [code |-> "a", options |-> <<"sourceMaps", "integrity">>],
      [code |-> "a", options |-> <<"integrity", "sourceMaps">>],
      [code |-> "b", options |-> <<"sourceMaps">>] }

\* The option set of an option list.
NormalizeOptions(opts) == { opts[i] : i \in DOMAIN opts }

\* A cache key that keeps the options as they were written.
CacheKeyOfOptionList(action) == <<action.code, action.options>>

\* The cache key: the source code and the normalized option set.
CacheKey(action) == <<action.code, NormalizeOptions(action.options)>>

\* The artifact content a transform writes for an action.
Transform(action) ==
    [code |-> action.code, target |-> "es5", options |-> NormalizeOptions(action.options)]

\* The content an inline job writes for an action.
Inline(action) == [code |-> action.code, target |-> "localized"]

\* create(cache directory?, ...): a pool of the given size; cachePath tells
\* whether a cache directory was given.
NewPool(size, cachePath) ==
    [ size |-> size, cachePath |-> cachePath, state |-> "running",
      cache |-> {}, kind |-> "none", actions |-> <<>>, queue |-> <<>>,
      inFlight |-> {}, ready |-> <<>> ]

\* The entry of the cache for a key, <<>> without a cache directory or an entry.
CacheLookup(p, key) ==
    IF p.cachePath /\ \E e \in p.cache : e.key = key
    THEN <<(CHOOSE e \in p.cache : e.key = key).content>>
    ELSE <<>>

\* The indices of the actions of a batch found in the cache, in order.
CacheHits(p, batch) ==
    LET Hit(i) == CacheLookup(p, CacheKey(batch[i])) # <<>>
    IN  SelectSeq([i \in DOMAIN batch |-> i], Hit)

\* The indices of the actions of a batch not found in the cache, in order.
CacheMisses(p, batch) ==
    LET Miss(i) == CacheLookup(p, CacheKey(batch[i])) = <<>>
    IN  SelectSeq([i \in DOMAIN batch |-> i], Miss)

\* The result of one action as the consumer draws it.
JobResult(p, i, ok, content) ==
    [idx |-> i, ok |-> ok, content |-> content, kind |-> p.kind]

\* The results to deliver after a job has ended; a draining pool has no
\* consumer and drops them.
WithResult(p, res) == IF p.state = "running" THEN Append(p.ready, res) ELSE p.ready

\* What earlier processAll calls returned: the actions and their content.
ReturnedBy(p, log) ==
    log.returned \cup
    { [action |-> p.actions[r.idx], content |-> r.content] :
        r \in { d \in log.delivered : d.ok /\ d.kind = "processAll" } }

\* The batches handed to one call: up to MaxBatch distinct actions.
Batches ==
    { b \in SeqsUpTo(ExecActions, MaxBatch) :
        b # <<>> /\ \A i, j \in DOMAIN b : b[i] = b[j] => i = j }

handlerVars == << pc, options, emittedFiles, classifierVars, transformVars, executor,
                  inlineVars, statsVars, budgetFailures, indexVars, stages, thrown,
                  result >>

\* The build whose executor is followed.
ExecutorBuildOptions ==
    { o \in OptionSets : /\ useBundleDownleveling(o) /\ o.shouldInline
                         /\ o.sourceMap /\ o.subresourceIntegrity }

ExecutorInit ==
    /\ options \in ExecutorBuildOptions
    /\ InitLocals
    /\ pool \in { NewPool(size, cachePath) : size \in 1..MaxPool, cachePath \in BOOLEAN }
    /\ poolLog = NoPoolLog
    /\ ComponentsIdle

\* processAll(actions): the actions found in the cache give their result at
\* once, the others are queued.
ProcessAllCall ==
    /\ pool.state = "running"
    /\ pool.kind = "none"
    /\ poolLog.calls < MaxCalls
    /\ \E batch \in Batches :
         LET hits == CacheHits(pool, batch)
         IN  pool' = [pool EXCEPT
                        !.kind = "processAll",
                        !.actions = batch,
                        !.queue = CacheMisses(pool, batch),
                        !.ready = [k \in DOMAIN hits |->
                                     [ idx |-> hits[k], ok |-> TRUE,
                                       content |-> CacheLookup(pool, CacheKey(batch[hits[k]]))[1],
                                       kind |-> "processAll" ]]]
    /\ poolLog' = [ calls |-> poolLog.calls + 1, dispatched |-> {}, delivered |-> {},
                    returned |-> ReturnedBy(pool, poolLog), outcome |-> "sequence" ]
    /\ UNCHANGED << handlerVars, componentVars >>

\* inlineAll(actions): every action is queued; nothing is cached.
InlineAllCall ==
    /\ pool.state = "running"
    /\ pool.kind = "none"
    /\ poolLog.calls < MaxCalls
    /\ \E batch \in Batches :
         pool' = [pool EXCEPT !.kind = "inlineAll", !.actions = batch,
                              !.queue = [i \in DOMAIN batch |-> i], !.ready = <<>>]
    /\ poolLog' = [ calls |-> poolLog.calls + 1, dispatched |-> {}, delivered |-> {},
                    returned |-> ReturnedBy(pool, poolLog), outcome |-> "sequence" ]
    /\ UNCHANGED << handlerVars, componentVars >>

\* A dispatch that does not look for an idle unit.
DispatchWithoutIdleUnit ==
    /\ pool.state \in {"running", "draining"}
    /\ pool.queue # <<>>
    /\ pool' = [pool EXCEPT !.queue = Tail(@), !.inFlight = @ \cup {Head(pool.queue)}]
    /\ poolLog' = [poolLog EXCEPT !.dispatched = @ \cup {Head(pool.queue)}]
    /\ UNCHANGED << handlerVars, componentVars >>

\* The action at the head of the queue is dispatched to an idle unit.
Dispatch ==
    /\ pool.state \in {"running", "draining"}
    /\ pool.queue # <<>>
    /\ Cardinality(pool.inFlight) < pool.size
    /\ pool' = [pool EXCEPT !.queue = Tail(@), !.inFlight = @ \cup {Head(pool.queue)}]
    /\ poolLog' = [poolLog EXCEPT !.dispatched = @ \cup {Head(pool.queue)}]
    /\ UNCHANGED << handlerVars, componentVars >>

\* A unit ends its job: the artifact is written and, for a transform with a
\* cache directory, the cache entry; the result joins the results to deliver.
JobCompletes ==
    /\ \E i \in pool.inFlight :
         LET content == IF pool.kind = "processAll" THEN Transform(pool.actions[i])
                        ELSE Inline(pool.actions[i])
         IN  pool' = [pool EXCEPT
                        !.inFlight = @ \ {i},
                        !.ready = WithResult(pool, JobResult(pool, i, TRUE, content)),
                        !.cache = IF pool.kind = "processAll" /\ pool.cachePath
                                  THEN @ \cup {[key |-> CacheKey(pool.actions[i]),
                                                content |-> content]}
                                  ELSE @]
    /\ UNCHANGED << handlerVars, componentVars, poolLog >>

\* A job fails, or its unit crashes and is respawned: the failure is kept for
\* the consumer, and the pool has an idle unit again.
JobFails ==
    /\ \E i \in pool.inFlight :
         pool' = [pool EXCEPT !.inFlight = @ \ {i},
                              !.ready = WithResult(pool, JobResult(pool, i, FALSE, <<>>))]
    /\ UNCHANGED << handlerVars, componentVars, poolLog >>

\* The consumer draws the next result, in completion order; the sequence ends
\* with the last one.
DrawNext ==
    /\ pool.state = "running"
    /\ pool.ready # <<>>
    /\ poolLog' = [poolLog EXCEPT !.delivered = @ \cup {Head(pool.ready)}]
    /\ pool' = [pool EXCEPT
                  !.ready = Tail(@),
                  !.kind = IF Cardinality(poolLog.delivered) + 1 = Len(pool.actions)
                           THEN "none" ELSE @]
    /\ UNCHANGED << handlerVars, componentVars >>

\* stop() that cancels the outstanding jobs.
StopAndCancel ==
    /\ pool.state = "running"
    /\ pool' = [pool EXCEPT !.state = "stopped", !.kind = "none", !.queue = <<>>,
                            !.inFlight = {}, !.ready = <<>>]
    /\ UNCHANGED << handlerVars, componentVars, poolLog >>

\* stop() that drains the outstanding jobs: they still run, nothing is drawn.
StopAndDrain ==
    /\ pool.state = "running"
    /\ pool.queue # <<>> \/ pool.inFlight # {}
    /\ pool' = [pool EXCEPT !.state = "draining", !.ready = <<>>]
    /\ UNCHANGED << handlerVars, componentVars, poolLog >>

\* The last outstanding job of a draining pool has ended.
Drained ==
    /\ pool.state = "draining"
    /\ pool.queue = <<>>
    /\ pool.inFlight = {}
    /\ pool' = [pool EXCEPT !.state = "stopped", !.kind = "none", !.ready = <<>>]
    /\ UNCHANGED << handlerVars, componentVars, poolLog >>

\* A processAll after stop() that queues its actions in the stopped pool.
ProcessAllAfterStopQueues ==
    /\ pool.state # "running"
    /\ poolLog.calls < MaxCalls
    /\ \E batch \in Batches :
         pool' = [pool EXCEPT !.queue = @ \o [i \in DOMAIN batch |-> i]]
    /\ poolLog' = [poolLog EXCEPT !.calls = @ + 1, !.outcome = "sequence"]
    /\ UNCHANGED << handlerVars, componentVars >>

\* processAll(actions) once stop() has been called: the call fails at once
\* with the executor-stopped condition, and nothing is queued.
ProcessAllAfterStop ==
    /\ pool.state # "running"
    /\ poolLog.calls < MaxCalls
    /\ poolLog' = [poolLog EXCEPT !.calls = @ + 1, !.outcome = "executor stopped"]
    /\ UNCHANGED << handlerVars, componentVars, pool >>

JobEnds == JobCompletes \/ JobFails

ExecutorNext ==
    \/ ProcessAllCall
    \/ InlineAllCall
    \/ Dispatch
    \/ JobCompletes
    \/ JobFails
    \/ DrawNext
    \/ StopAndCancel
    \/ StopAndDrain
    \/ Drained
    \/ ProcessAllAfterStop

ExecutorSpec == ExecutorInit /\ [][ExecutorNext]_vars

\* The units run on their own: a queued action is dispatched when a unit is
\* idle, a job ends, a draining pool stops.
ExecutorFairSpec ==
    /\ ExecutorSpec
    /\ WF_vars(Dispatch)
    /\ WF_vars(JobEnds)
    /\ WF_vars(Drained)

-----------------------------------------------------------------------------
(* Properties of the build-event handler *)

Range(s) == { s[i] : i \in DOMAIN s }

Last(s) == s[Len(s)]

\* The exception of this build was raised at the given place.
ThrownAt(place) == thrown # <<>> /\ thrown[1].at = place

\* The chunk ids of the actions flagged runtime.
RuntimeNames == { actions[i].name : i \in { j \in DOMAIN actions : actions[j].runtime } }

\* The transform stage has collected every result it asks for.
TransformComplete ==
    /\ executor.state # "none"
    /\ pending = {}
    /\ Len(processResults) = Len(processActions) + Len(processRuntimeAction)

\* C1, as stated: in every differential-loading build with a runtime chunk,
\* whatever the configuration and the completion order, the result of the
\* runtime chunk is the last element of processResults once the transform
\* stage is complete.
C1_RuntimeResultAlwaysLast ==
    (TransformComplete /\ RuntimeNames # {})
        => /\ processResults # <<>>
           /\ Last(processResults).name \in RuntimeNames

\* C1, amended: with subresource integrity enabled, a build whose processable
\* scripts include a file starting with "runtime" sets a runtime action aside;
\* the batch never yields its result, its processing starts only when every
\* result of the batch has been collected, and its result is the last element
\* of processResults.
C1_DeferredRuntimeLast ==
    /\ (executor.state # "none" /\ options.subresourceIntegrity /\ RuntimeNames # {})
          => /\ processRuntimeAction # <<>>
             /\ processRuntimeAction[1].runtime
    /\ processRuntimeAction # <<>> =>
          /\ options.subresourceIntegrity
          /\ pc = "transform" =>
               \A i \in DOMAIN processResults :
                   processResults[i].name # processRuntimeAction[1].name
          /\ pc = "runtime" =>
               /\ pending = {}
               /\ Len(processResults) = Len(processActions)
               /\ { processResults[i].name : i \in DOMAIN processResults }
                    = { processActions[i].name : i \in DOMAIN processActions }
          /\ TransformComplete =>
               /\ Last(processResults).name = processRuntimeAction[1].name
               /\ \A i \in 1..(Len(processResults) - 1) :
                      processResults[i].name # processRuntimeAction[1].name

\* A build with subresource integrity whose runtime result followed a batch result.
C1_Witness ==
    /\ TransformComplete
    /\ processRuntimeAction # <<>>
    /\ Len(processResults) = 2
    /\ Last(processResults).name = "0"

\* The indices of the stop() calls the executor received.
StopCalls == { i \in DOMAIN executor.calls : executor.calls[i] = "stop" }

\* C2: once an executor exists, stop() is called exactly once before the
\* result of the build is produced, on every exit path, no call follows
\* stop(), and the stages after the try block run with a stopped executor.
C2_StopExactlyOnce ==
    /\ Cardinality(StopCalls) <= 1
    /\ \A i \in StopCalls : i = Len(executor.calls)
    /\ (executor.state # "none" /\ result.kind # "none") => Cardinality(StopCalls) = 1
    /\ (executor.state # "none" /\ pc \in {"budgets", "assets", "index"})
          => Cardinality(StopCalls) = 1
    /\ executor.state = "stopped" <=> StopCalls # {}

\* The runtime processing failed after the batch, and the executor was stopped.
C2_Witness ==
    /\ ThrownAt("process")
    /\ result = Rejected
    /\ executor.calls = <<"new", "processAll", "stop">>

\* The results whose chunk id is the main chunk id.
MainResults == { i \in DOMAIN processResults : processResults[i].name = mainChunkId }

SetLocaleActions == { i \in DOMAIN inlineActions : inlineActions[i].setLocale }

\* The base names of the artifact variants of a result.
VariantNames(res) ==
    { PathBasename(art[1].filename) : art \in {res.original, res.downlevel} \ {<<>>} }

InlineAllCalled == "inlineAll" \in Range(executor.calls)

\* C3, as stated: in a build that inlines translations and has a result for
\* the main chunk, exactly one inline action has setLocale = true.
C3_ExactlyOneSetLocale ==
    (InlineAllCalled /\ mainChunkId # Undefined /\ MainResults # {})
        => Cardinality(SetLocaleActions) = 1

\* C3, amended: an inline action has setLocale = true exactly when it is
\* derived from the result whose chunk id is the main chunk id; there is one
\* such action per artifact variant of that result (two for a main chunk that
\* has an original and a downlevel variant, none without such a result).
C3_SetLocaleFollowsMainChunk ==
    InlineAllCalled =>
        /\ \A i \in DOMAIN inlineActions :
               inlineActions[i].setLocale
                 <=> \E r \in MainResults :
                         inlineActions[i].filename \in VariantNames(processResults[r])
        /\ Cardinality(SetLocaleActions)
             = Cardinality(UNION { VariantNames(processResults[r]) : r \in MainResults })
        /\ mainChunkId # Undefined => Cardinality(SetLocaleActions) \in {0, 2}

\* The main chunk was processed next to another chunk, and both its variants
\* carry setLocale.
C3_Witness ==
    /\ InlineAllCalled
    /\ mainChunkId = "1"
    /\ Len(processResults) = 2
    /\ Cardinality(SetLocaleActions) = 2
    /\ Len(inlineActions) > 2

\* A file the classifier turns into an action (index.ts:372-397).
Processable(file) == ~SkipsAsAsset(file) /\ ~IsPassThrough(file)

\* C4, as stated: each distinct processable script path yields exactly one
\* action, and after a transform stage that completes without failure
\* processResults holds exactly one result per action.
C4_OneResultPerAction ==
    /\ executor.state # "none" =>
          /\ Len(actions)
               = Cardinality({ f.file : f \in { g \in Range(emittedFiles) : Processable(g) } })
          /\ \A i, j \in DOMAIN actions :
                 actions[i].filename = actions[j].filename => i = j
    /\ TransformComplete =>
          /\ Len(processResults) = Len(actions)
          /\ { processResults[i].name : i \in DOMAIN processResults }
               = { actions[i].name : i \in DOMAIN actions }

\* C5: when drawing a result from processAll fails the handler ends at once:
\* no further result is drawn, the runtime action is not processed, no inline
\* action is submitted, no budget is checked and no index is generated.
C5_TransformFailFast ==
    ThrownAt("processAll") =>
        /\ pc = "done"
        /\ result = Rejected
        /\ ~ENABLED DrawResult
        /\ ~ENABLED StartRuntime
        /\ Len(processResults) < Len(processActions)
        /\ "runtime" \notin Range(stages)
        /\ processRuntimeAction # <<>> =>
               \A i \in DOMAIN processResults :
                   processResults[i] # Process(processRuntimeAction[1])
        /\ inlineActions = <<>>
        /\ ~InlineAllCalled
        /\ "budgets" \notin Range(stages)
        /\ budgetFailures = <<>>
        /\ "index" \notin Range(stages)
        /\ indexWritten = {}

\* The first draw failed in a build that had a runtime action waiting and
\* translations to inline.
C5_Witness ==
    /\ ThrownAt("processAll")
    /\ processResults = <<>>
    /\ processRuntimeAction # <<>>
    /\ options.shouldInline

\* The files the inline actions of this build produce.
InlineFilenames == { inlineActions[i].filename : i \in DOMAIN inlineActions }

\* What holds of a build in which an inline result carried an error diagnostic
\* and nothing was thrown.
InlineErrorDoesNotStop ==
    (hasErrors /\ thrown = <<>>) =>
        /\ pc \in {"inline", "done"}
        /\ pc = "inline" => result = NoResult
        /\ (pc = "inline" /\ inlinePending # {}) => ENABLED DrawInlineResult
        /\ pc = "done" =>
              /\ result = SuccessResult(FALSE)
              /\ inlinePending = {}
              /\ localized = InlineFilenames
              /\ copyIgnore = <<IgnoreList(options.outputPath, processedFiles)>>
              /\ executor.state = "stopped"

\* C6: an error diagnostic in an inline result does not stop the inlining
\* stage: the remaining results are still drawn and the bulk copy still runs,
\* only then does the build end with success = false, and no localized file
\* already written is removed.
C6_InlineErrorKeepsGoing ==
    /\ []InlineErrorDoesNotStop
    /\ [][localized \subseteq localized' /\ (hasErrors => hasErrors')]_vars

\* The first of four inline results carried an error; all four files were
\* written and the build ended with success = false.
C6_Witness ==
    /\ pc = "done"
    /\ hasErrors
    /\ result = SuccessResult(FALSE)
    /\ Cardinality(localized) = 4
    /\ copyIgnore # <<>>

\* The build ended without success.
BuildFailure == pc = "done" /\ result # SuccessResult(TRUE)

\* C7, as stated, for the builds that created an executor: a failing build
\* ends with a result value whose success is false.
C7_FailureIsAlwaysAValue ==
    (BuildFailure /\ executor.state # "none")
        => /\ result.kind = "value"
           /\ ~result.success

\* The text of a caught value: the message of an Error, the string itself,
\* undefined for anything else.
CaughtText(err) ==
    CASE err.type = "Error" -> err.message
      [] err.type = "string" -> err.message
      [] OTHER -> Undefined

\* The diagnostics that end a build with { success: false }: bundler or budget
\* errors, an inline error diagnostic, a failed inlining of the emitted files.
ReportedFailure ==
    \/ errors # <<>>
    \/ hasErrors
    \/ (executor.state = "none" /\ stages # <<>> /\ Last(stages) = "inline")

\* C7, amended: a build ends with { success: true }, with { success: false }
\* when its diagnostics were reported, with { success: false, error } when an
\* exception was caught while drawing inline results, in the bulk copy, in the
\* asset copy or in the index stage (error is the text of the exception,
\* undefined when it is neither an Error nor a string; the asset copy prefixes
\* "Unable to copy assets: " to err.message), and with no result value at all
\* (the handler rejects) when the exception was raised for missing stats, in
\* classification, in the transform stage, while the inline actions were
\* built or by assertNever.
C7_ResultShapes ==
    pc = "done" =>
        /\ thrown = <<>> =>
              /\ result \in {SuccessResult(TRUE), SuccessResult(FALSE)}
              /\ result = SuccessResult(FALSE) <=> ReportedFailure
        /\ (ThrownAt("inlineAll") \/ ThrownAt("copy") \/ ThrownAt("index")) =>
              result = [kind |-> "value", success |-> FALSE, errorKey |-> TRUE,
                        error |-> <<CaughtText(thrown[1].err)>>]
        /\ ThrownAt("assets") =>
              result = [kind |-> "value", success |-> FALSE, errorKey |-> TRUE,
                        error |-> <<"Unable to copy assets: ",
                                    IF thrown[1].err.type = "Error"
                                    THEN thrown[1].err.message ELSE Undefined>>]
        /\ (ThrownAt("stats") \/ ThrownAt("read") \/ ThrownAt("processAll")
              \/ ThrownAt("process") \/ ThrownAt("inlineRead")
              \/ ThrownAt("assertNever")) =>
              result = Rejected

\* A string thrown by the bulk copy became the error of the result.
C7_Witness ==
    /\ pc = "done"
    /\ ThrownAt("copy")
    /\ thrown[1].err.type = "string"
    /\ result.errorKey
    /\ result.error = <<"failure">>

\* The budget check of this build has run.
BudgetsChecked == "budgets" \in Range(stages) /\ pc # "budgets"

\* Every breach has a severity of ThresholdSeverity.
ValidBreaches ==
    \A i \in DOMAIN budgetFailures : budgetFailures[i].severity \in {"warning", "error"}

HasBreach(sev) == \E i \in DOMAIN budgetFailures : budgetFailures[i].severity = sev

\* The budget messages of the breaches of one severity, in order.
RECURSIVE BudgetTextsOf(_, _)
BudgetTextsOf(failures, sev) ==
    IF failures = <<>> THEN <<>>
    ELSE (IF Head(failures).severity = sev
          THEN <<BudgetText(Head(failures).message)>> ELSE <<>>)
         \o BudgetTextsOf(Tail(failures), sev)

\* C8: for every list of breaches of severity warning or error, each error
\* breach appends one message to the errors and the build ends with
\* success = false; each warning breach appends one message to the warnings
\* and, without an error breach, the build goes on to the asset copy.
C8_BudgetSeverities ==
    (BudgetsChecked /\ ValidBreaches) =>
        /\ \E w \in CompilationWarnings :
               warnings = w \o BudgetTextsOf(budgetFailures, "warning")
        /\ errors = BudgetTextsOf(budgetFailures, "error")
        /\ HasBreach("error") => (pc = "done" /\ result = SuccessResult(FALSE))
        /\ ~HasBreach("error") => "assets" \in Range(stages)

\* Two warning breaches, and the build ended with success = true.
C8_Witness ==
    /\ pc = "done"
    /\ result = SuccessResult(TRUE)
    /\ Len(budgetFailures) = 2
    /\ ~HasBreach("error")
    /\ Len(warnings) = 3

\* C9: a breach whose severity is neither warning nor error makes assertNever
\* throw: the handler rejects, and the breach is in neither list.
C9_UnexpectedSeverityThrows ==
    (BudgetsChecked /\ ~ValidBreaches) =>
        /\ pc = "done"
        /\ ThrownAt("assertNever")
        /\ result = Rejected
        /\ "assets" \notin Range(stages)
        /\ \A i \in DOMAIN budgetFailures :
               budgetFailures[i].severity \notin {"warning", "error"} =>
                   BudgetText(budgetFailures[i].message)
                       \notin (Range(warnings) \cup Range(errors))

\* A warning breach was recorded, then a breach of unexpected severity threw.
C9_Witness ==
    /\ BudgetsChecked
    /\ Len(budgetFailures) = 2
    /\ budgetFailures[1].severity = "warning"
    /\ budgetFailures[2].severity = "unexpected"
    /\ result = Rejected

\* The stages in the order the handler can enter them.
StageOrder ==
    <<"classify", "transform", "runtime", "inline", "budgets", "assets", "index">>

StagePosition(s) == CHOOSE k \in DOMAIN StageOrder : StageOrder[k] = s

\* C10, as stated, for a build whose budget check reported breaches of valid
\* severity: whatever their severity, the build goes on to the asset copy and
\* the index stage; an error breach changes the success flag only.
C10_ErrorBreachChangesOnlySuccess ==
    (pc = "done" /\ BudgetsChecked /\ ValidBreaches /\ thrown = <<>>)
        => /\ "assets" \in Range(stages)
           /\ "index" \in Range(stages)

\* C10, amended: the stages are entered in the fixed order; budgets are
\* checked only when every batch result, the runtime result and every
\* localized file have been produced and the executor is stopped; an error
\* breach ends the build with { success: false } and leaves the processed
\* artifacts as they are, but the asset copy and the index stage do not run.
C10_StageOrderAndBudgets ==
    /\ \A i, j \in DOMAIN stages :
           i < j => StagePosition(stages[i]) < StagePosition(stages[j])
    /\ "budgets" \in Range(stages) =>
           /\ TransformComplete
           /\ executor.state = "stopped"
           /\ options.shouldInline =>
                 /\ inlinePending = {}
                 /\ localized = InlineFilenames
                 /\ copyIgnore # <<>>
                 /\ ~hasErrors
    /\ (BudgetsChecked /\ ValidBreaches /\ HasBreach("error")) =>
           /\ pc = "done"
           /\ result = SuccessResult(FALSE)
           /\ "assets" \notin Range(stages)
           /\ "index" \notin Range(stages)
           /\ ~assetsCopied
           /\ indexWritten = {}

\* A build that went through the runtime and inlining stages and then met an
\* error breach.
C10_Witness ==
    /\ pc = "done"
    /\ HasBreach("error")
    /\ ValidBreaches
    /\ stages = <<"classify", "transform", "runtime", "inline", "budgets">>
    /\ localized # {}

-----------------------------------------------------------------------------
(* Properties of the classifier *)

\* No two entries of a sequence have the same key.
NoRepeat(keys) == \A i, j \in DOMAIN keys : keys[i] = keys[j] => i = j

PathsOf(fs) == [i \in DOMAIN fs |-> fs[i].file]

IsWorkerAsset(file) == file.asset /\ IsWorkerFile(file)

IsPassThroughFile(file) == ~SkipsAsAsset(file) /\ IsPassThrough(file)

\* C11, as stated: the pass-through list, the action list and the worker
\* replacement pairs each hold at most one entry per emitted path, and no
\* path is both a pass-through file and a processable script.
C11_AllOutputsDeduplicated ==
    /\ NoRepeat(PathsOf(files))
    /\ NoRepeat([i \in DOMAIN actions |-> actions[i].filename])
    /\ NoRepeat([i \in DOMAIN workerReplacements |-> workerReplacements[i][1]])
    /\ Range(PathsOf(files)) \cap seen = {}

\* C11, amended: the action list holds exactly one entry per distinct
\* processable path; the pass-through list and the worker replacement pairs
\* hold one entry per occurrence in the emitted list, repeats included; no
\* path is both a pass-through file and a processable script.
C11_ActionsDeduplicated ==
    /\ NoRepeat([i \in DOMAIN actions |-> actions[i].filename])
    /\ Len(actions)
         = Cardinality({ f.file : f \in { g \in Range(emittedFiles) : Processable(g) } })
    /\ seen = { f.file : f \in { g \in Range(emittedFiles) : Processable(g) } }
    /\ files = SelectSeq(emittedFiles, IsPassThroughFile)
    /\ Len(workerReplacements) = Len(SelectSeq(emittedFiles, IsWorkerAsset))
    /\ Range(PathsOf(files)) \cap seen = {}

\* A processable path was emitted twice and followed by a pass-through file:
\* one action and one pass-through file.
C11_Witness ==
    /\ Len(emittedFiles) = 3
    /\ emittedFiles[1] = emittedFiles[2]
    /\ Processable(emittedFiles[1])
    /\ Len(actions) = 1
    /\ Len(files) = 1

\* The positions of the processable scripts with a given chunk name.
ScriptsNamed(n) ==
    { i \in DOMAIN emittedFiles :
        Processable(emittedFiles[i]) /\ emittedFiles[i].name = n }

FirstOf(S) == CHOOSE i \in S : \A j \in S : i <= j

\* C12: the main chunk id is the id of the first processable script named
\* "vendor" if there is one, otherwise the id of the first one named "main",
\* otherwise undefined.
C12_MainChunkIdChoice ==
    mainChunkId =
        IF ScriptsNamed("vendor") # {}
        THEN emittedFiles[FirstOf(ScriptsNamed("vendor"))].id
        ELSE IF ScriptsNamed("main") # {}
        THEN emittedFiles[FirstOf(ScriptsNamed("main"))].id
        ELSE Undefined

\* The main chunk came first and the vendor chunk later: the vendor id won.
C12_Witness ==
    /\ Len(emittedFiles) = 3
    /\ emittedFiles[1].name = "main"
    /\ emittedFiles[3].name = "vendor"
    /\ mainChunkId = "2"

-----------------------------------------------------------------------------
(* Properties of the delivery order *)

\* The results as they would arrive in submission order.
SubmissionOrderResults ==
    [i \in DOMAIN processActions |-> Process(processActions[i])]
    \o [i \in DOMAIN processRuntimeAction |-> Process(processRuntimeAction[i])]

\* C13: whatever the order in which processAll delivers its results, the set
\* of inline actions (with their setLocale), the processed-file set, and the
\* results and bundle statistics handed to the budget check are those of the
\* submission order.
C13_DeliveryOrderIrrelevant ==
    /\ TransformComplete =>
          /\ Range(processResults) = Range(SubmissionOrderResults)
          /\ Range(BundleInfoStats(processResults, emittedFiles))
               = Range(BundleInfoStats(SubmissionOrderResults, emittedFiles))
    /\ InlineAllCalled =>
          /\ Range(inlineActions)
               = Range(InlineActionsFor(SubmissionOrderResults, mainChunkId))
          /\ processedFiles = ProcessedFilesFor(SubmissionOrderResults)

\* The main chunk was submitted first and delivered last, and its inline
\* actions carry setLocale.
C13_Witness ==
    /\ InlineAllCalled
    /\ Len(processResults) = 2
    /\ processResults # SubmissionOrderResults
    /\ processActions[1].name = mainChunkId
    /\ SetLocaleActions = {3, 4}


-----------------------------------------------------------------------------
(* Properties of the bulk copy *)

\* The bulk copy of index.ts:567-582 has been started.
CopyStarted == copyIgnore # <<>> \/ ThrownAt("copy")

\* The artifacts of the collected results: those an inline action is derived from.
InlinedArtifacts ==
    UNION { { processResults[i].original[k] : k \in DOMAIN processResults[i].original }
            \cup { processResults[i].downlevel[k] : k \in DOMAIN processResults[i].downlevel }
            : i \in DOMAIN processResults }

\* C14: the bulk copy starts only when every result of inlineAll has been
\* consumed, and its ignore list holds the file name and the map file name of
\* every artifact an inline action was derived from.
C14_CopyAfterInlineWithIgnoreList ==
    /\ CopyStarted =>
          /\ inlinePending = {}
          /\ localized = { inlineActions[i].filename : i \in DOMAIN inlineActions }
    /\ copyIgnore # <<>> =>
          /\ Cardinality(InlinedArtifacts) = Len(inlineActions)
          /\ \A art \in InlinedArtifacts :
                /\ \E i \in DOMAIN inlineActions :
                      /\ inlineActions[i].filename = PathBasename(art.filename)
                      /\ inlineActions[i].map = (art.map # <<>>)
                /\ PathRelative(options.outputPath, art.filename) \in copyIgnore[1]
                /\ \A k \in DOMAIN art.map :
                      PathRelative(options.outputPath, art.map[k]) \in copyIgnore[1]

\* A copy made after four inline actions with source maps.
C14_Witness ==
    /\ copyIgnore # <<>>
    /\ Len(inlineActions) = 4
    /\ \A i \in DOMAIN inlineActions : inlineActions[i].map
    /\ Cardinality(copyIgnore[1]) = 8


-----------------------------------------------------------------------------
(* Properties of the pre-built legacy polyfills *)

\* The paths of the emitted legacy polyfills the classifier processes.
LegacyPolyfillPaths ==
    { f.file : f \in { g \in Range(emittedFiles) : Processable(g) /\ IsEs5Polyfills(g) } }

Occurrences(s, x) == Cardinality({ i \in DOMAIN s : s[i] = x })

\* A legacy polyfill is never a module script, and its emitted file, and its
\* map when source maps are read, is removed exactly once.
LegacyPolyfillRemovedOnce ==
    /\ \A i \in DOMAIN moduleFiles : ~IsEs5Polyfills(moduleFiles[i])
    /\ \A p \in LegacyPolyfillPaths :
          /\ Occurrences(unlinked, PathJoin(options.outputPath, p)) = 1
          /\ Occurrences(unlinked, MapOf(PathJoin(options.outputPath, p)))
               = IF options.sourceMap THEN 1 ELSE 0
    /\ Len(unlinked)
         = Cardinality(LegacyPolyfillPaths) * (IF options.sourceMap THEN 2 ELSE 1)

\* The action of a legacy polyfill targets the file of the same directory
\* whose name has lost its version suffix, with ignoreOriginal.
LegacyPolyfillActionTarget ==
    \A p \in LegacyPolyfillPaths :
       Cardinality({ i \in DOMAIN actions :
                       /\ actions[i].ignoreOriginal
                       /\ actions[i].filename
                            = PathJoin(options.outputPath, StripEs20(p)) }) = 1

\* C15, as stated: a pre-built legacy polyfill is never added to the module
\* list; its suffixed file, and its map when source maps are read, is removed
\* exactly once even if its path is repeated; and its action targets the
\* suffix-free filename with ignoreOriginal.
C15_LegacyPolyfillHandling ==
    LegacyPolyfillRemovedOnce /\ LegacyPolyfillActionTarget


VersionTokens == Es20Tokens \cup EsNextTokens \cup {"-es5"}

\* The rename of index.ts:433 leaves the renamed action filenames unchanged.
RenamedTargetsStable ==
    \A i \in DOMAIN actions :
       actions[i].ignoreOriginal => StripEs20(actions[i].filename) = actions[i].filename

\* The names recorded in noModuleFiles carry one version suffix, and the
\* rename of index.ts:460 leaves those of the legacy polyfills unchanged.
RecordedLegacyNamesSingleSuffix ==
    \A i \in DOMAIN noModuleFiles :
       /\ Occurrences(noModuleFiles[i].file, "-es5")
            + Cardinality({ k \in DOMAIN noModuleFiles[i].file :
                              noModuleFiles[i].file[k] \in Es20Tokens \cup EsNextTokens }) = 1
       /\ IsEs5Polyfills(noModuleFiles[i]) =>
             StripEs20(noModuleFiles[i].file) = noModuleFiles[i].file

\* C16, as stated: the legacy-polyfill rename applied to a filename it has
\* already renamed returns it unchanged, and the legacy filename recorded for a
\* processed script never carries two version suffixes.
C16_SuffixStrippingIdempotent ==
    RenamedTargetsStable /\ RecordedLegacyNamesSingleSuffix


-----------------------------------------------------------------------------
(* Properties of the worker replacements *)

\* The replacement pair of every emitted worker asset, in emitted order.
WorkerPairs ==
    [ i \in DOMAIN SelectSeq(emittedFiles, IsWorkerAsset) |->
        << SelectSeq(emittedFiles, IsWorkerAsset)[i].file,
           ToEs5Name(SelectSeq(emittedFiles, IsWorkerAsset)[i].file) >> ]

\* C17: every emitted asset whose name ends with '.worker.js' is recorded as
\* the pair of its name and that name with the version suffix replaced by
\* '-es5', and every action handed to processAll carries the complete list of
\* pairs, wherever the worker assets stand among the emitted files.
C17_WorkerReplacementsComplete ==
    /\ workerReplacements = WorkerPairs
    /\ \A i \in DOMAIN workerReplacements :
          /\ EndsWith(workerReplacements[i][1], <<".worker", ".js">>)
          /\ \E k \in DOMAIN workerReplacements[i][1] :
                /\ workerReplacements[i][1][k] \in Es20Tokens \cup EsNextTokens
                /\ workerReplacements[i][2]
                     = [workerReplacements[i][1] EXCEPT ![k] = "-es5"]
    /\ pc = "partitioned" =>
          /\ \A i \in DOMAIN processActions :
                processActions[i].replacements = WorkerPairs
          /\ Len(processActions) + Len(processRuntimeAction) <= Len(actions)
          /\ \A i \in DOMAIN actions :
                ~IsDeferredRuntime(actions[i]) =>
                   \E j \in DOMAIN processActions :
                      processActions[j].filename = actions[i].filename

\* A script is classified before the worker asset is met, and is submitted
\* with the worker's pair.
C17_Witness ==
    /\ pc = "partitioned"
    /\ Len(emittedFiles) = 2
    /\ Processable(emittedFiles[1]) /\ ~emittedFiles[1].asset
    /\ IsWorkerAsset(emittedFiles[2])
    /\ Len(processActions) = 2
    /\ processActions[1].replacements
         = << << <<"0", "-es2015", ".worker", ".js">>, <<"0", "-es5", ".worker", ".js">> >> >>


-----------------------------------------------------------------------------
(* Properties of the warnings and errors lists *)

IsPrefix(a, b) == Len(a) <= Len(b) /\ SubSeq(b, 1, Len(a)) = a

\* The breaches the loop of index.ts:656-668 handles: those before the first
\* one whose severity is neither warning nor error.
RECURSIVE HandledBreaches(_)
HandledBreaches(failures) ==
    IF failures = <<>> \/ Head(failures).severity \notin {"warning", "error"} THEN <<>>
    ELSE <<Head(failures)>> \o HandledBreaches(Tail(failures))

\* The step that runs the budget stage.
BudgetStep == pc = "budgets" /\ pc' # "budgets"

\* Every step keeps the entries of both lists, in order, and may add some.
ListsOnlyGrow == IsPrefix(warnings, warnings') /\ IsPrefix(errors, errors')

-----------------------------------------------------------------------------
(* Properties of the action executor *)

\* The actions of the run in the queue.
QueuedJobs == { pool.queue[k] : k \in DOMAIN pool.queue }

\* The actions of the run whose result waits for the consumer.
ReadyJobs == { pool.ready[k].idx : k \in DOMAIN pool.ready }

DeliveredJobs == { r.idx : r \in poolLog.delivered }

\* No more jobs are dispatched and not yet ended than the pool has units.
InFlightWithinPool == Cardinality(pool.inFlight) <= pool.size

\* Every action of a run is in exactly one place: the queue, a unit, the
\* results to deliver, or the results delivered.
EveryActionAccounted ==
    (pool.kind # "none" /\ pool.state = "running") =>
        /\ QueuedJobs \cup pool.inFlight \cup ReadyJobs \cup DeliveredJobs
             = DOMAIN pool.actions
        /\ Len(pool.queue) + Cardinality(pool.inFlight) + Len(pool.ready)
             + Cardinality(poolLog.delivered) = Len(pool.actions)

\* C19, as stated: in a processAll or inlineAll run the jobs dispatched and
\* not yet ended never exceed the pool size, the other actions wait in the
\* queue, and every queued action is eventually dispatched.
C19_CappedAndEveryQueuedDispatched ==
    /\ [](InFlightWithinPool /\ EveryActionAccounted)
    /\ \A i \in 1..MaxBatch : (i \in QueuedJobs) ~> (i \in poolLog.dispatched)

\* C19, amended: the same, but a queued action is eventually dispatched or
\* the executor is stopped first.
C19_CappedAndQueuedDispatchedUnlessStopped ==
    /\ [](InFlightWithinPool /\ EveryActionAccounted)
    /\ \A i \in 1..MaxBatch :
          (i \in QueuedJobs) ~> (i \in poolLog.dispatched \/ pool.state = "stopped")

\* Three actions on two units: two jobs in flight, the third in the queue.
C19_Witness ==
    /\ pool.size = 2
    /\ Cardinality(pool.inFlight) = 2
    /\ pool.queue = <<3>>
    /\ pool.state = "running"


\* Two actions with identical source code and option set.
SameCodeAndOptions(a, b) ==
    a.code = b.code /\ NormalizeOptions(a.options) = NormalizeOptions(b.options)

\* The actions of the current processAll call that an earlier processAll call
\* against the same cache directory returned a result for, with that result's
\* content.
Repeated ==
    { rep \in (DOMAIN pool.actions) \X { e.content : e \in poolLog.returned } :
        /\ pool.kind = "processAll"
        /\ pool.cachePath
        /\ \E e \in poolLog.returned :
              /\ e.content = rep[2]
              /\ SameCodeAndOptions(pool.actions[rep[1]], e.action) }

\* C20: with a cache directory, an action of a processAll call whose source
\* code and option set are those of an action an earlier processAll call
\* returned a result for is not dispatched to a unit, and its result carries
\* the content the earlier call returned.
C20_SecondCallServedFromCache ==
    \A rep \in Repeated :
       /\ rep[1] \notin poolLog.dispatched
       /\ rep[1] \notin QueuedJobs \cup pool.inFlight
       /\ \A r \in poolLog.delivered \cup { pool.ready[k] : k \in DOMAIN pool.ready } :
             r.idx = rep[1] => (r.ok /\ r.content = rep[2])

\* The second call has delivered, without a dispatch, the result of an action
\* whose options the first call had in another order, and has dispatched
\* another action.
C20_Witness ==
    /\ poolLog.calls = 2
    /\ pool.kind = "processAll"
    /\ \E rep \in Repeated :
          /\ \E r \in poolLog.delivered : r.idx = rep[1] /\ r.content = rep[2]
          /\ \A e \in poolLog.returned : e.action # pool.actions[rep[1]]
    /\ poolLog.dispatched # {}


\* A step in which a call is issued to the executor.
CallIssued == poolLog'.calls = poolLog.calls + 1

\* C21: a processAll call issued after stop() fails at once with the
\* executor-stopped condition: it leaves the pool as it was, so that it queues
\* and dispatches nothing and no result is awaited; and a stopped pool has no
\* job queued or in flight.
C21_ProcessAllAfterStopFails ==
    /\ [](pool.state = "stopped" => (pool.queue = <<>> /\ pool.inFlight = {}))
    /\ [][ (CallIssued /\ pool.state # "running") =>
              /\ poolLog'.outcome = "executor stopped"
              /\ pool' = pool
              /\ poolLog'.dispatched = poolLog.dispatched
              /\ poolLog'.delivered = poolLog.delivered ]_vars
    /\ [][ (CallIssued /\ pool.state = "running") => poolLog'.outcome = "sequence" ]_vars

\* A call was refused after a stop that cut a run short.
C21_Witness ==
    /\ pool.state = "stopped"
    /\ poolLog.outcome = "executor stopped"
    /\ poolLog.calls = 2
    /\ Cardinality(poolLog.delivered) < Len(pool.actions)


-----------------------------------------------------------------------------
(* Properties of the deferred runtime action *)

\* The actions flagged runtime that carry an integrity algorithm.
RuntimeIntegrityActions ==
    { i \in DOMAIN actions : actions[i].runtime /\ actions[i].integrityAlgorithm # Undefined }

\* An action is kept out of the processAll batch exactly when it is flagged
\* runtime and carries an integrity algorithm.
RemovedFromBatchExactlyWhenDeferred ==
    executor.state # "none" =>
        \A i \in DOMAIN actions :
           (i \in RuntimeIntegrityActions)
             <=> ~(\E j \in DOMAIN processActions :
                      processActions[j].filename = actions[i].filename)

\* The runtime options are built when the batch has drained, from every
\* result of the batch.
RuntimeDataIsTheBatch ==
    runtimeOptions # <<>> =>
        /\ Len(runtimeOptions[1].runtimeData) = Len(processActions)
        /\ runtimeOptions[1].runtimeData = SubSeq(processResults, 1, Len(processActions))
        /\ { runtimeOptions[1].runtimeData[k].name : k \in 1..Len(processActions) }
             = { processActions[j].name : j \in DOMAIN processActions }

\* Every action kept out of the batch has exactly one result, after those of
\* the batch.
EveryDeferredProcessedOnceLast ==
    TransformComplete =>
        \A i \in RuntimeIntegrityActions :
           /\ runtimeOptions # <<>>
           /\ Cardinality({ k \in DOMAIN processResults :
                              processResults[k].name = actions[i].name }) = 1
           /\ \A k \in DOMAIN processResults :
                 processResults[k].name = actions[i].name => k > Len(processActions)

\* C22, as stated: the runtime action is kept out of the processAll batch
\* exactly when it has runtime = true and an integrity algorithm; it is then
\* processed once, when the batch has drained, with the results of the batch
\* as its runtimeData, and its result is appended after them.
C22_RuntimeDeferredProcessedOnce ==
    /\ RemovedFromBatchExactlyWhenDeferred
    /\ RuntimeDataIsTheBatch
    /\ EveryDeferredProcessedOnceLast


-----------------------------------------------------------------------------
(* Properties of the emitted assets *)

\* The records of the three file lists handed to the index writer.
ListedFiles == Range(files) \cup Range(moduleFiles) \cup Range(noModuleFiles)

\* The emitted assets of the given kind have no action and are in no list.
NeverProcessedNorListed(assets) ==
    /\ \A f \in ListedFiles : ~(\E a \in assets : a.asset /\ f.asset /\ f.name = a.name
                                                  /\ f.id = a.id /\ f.extension = a.extension
                                                  /\ (f.file = a.file \/ f.file = ToEs5Name(a.file)))
    /\ \A i \in DOMAIN actions :
          \A a \in assets : actions[i].filename # PathJoin(options.outputPath, a.file)

EmittedAssets == { f \in Range(emittedFiles) : f.asset }

-----------------------------------------------------------------------------
(* Properties of the module and nomodule lists *)

\* The emitted files the classifier processes.
ProcessedScripts == { f \in Range(emittedFiles) : Processable(f) }

\* The entries of a list made from an emitted file: same name and id.
EntriesOf(list, f) == { i \in DOMAIN list : list[i].name = f.name /\ list[i].id = f.id }

\* C24: a processed script that is not a polyfill has exactly one nomodule
\* entry, named as the script with its version suffix replaced by '-es5', and
\* is itself in the module list, once; a modern polyfill ('polyfills-es20*')
\* is in the module list only, has optimizeOnly = true and no nomodule entry.
C24_ModuleAndNoModuleLists ==
    \A f \in ProcessedScripts :
       /\ (~IsEs5Polyfills(f) /\ ~IsEs2015Polyfills(f)) =>
             /\ Cardinality(EntriesOf(noModuleFiles, f)) = 1
             /\ \A i \in EntriesOf(noModuleFiles, f) :
                   /\ noModuleFiles[i] = [f EXCEPT !.file = ToEs5Name(f.file)]
                   /\ Occurrences(noModuleFiles[i].file, "-es5") = 1
                   /\ Len(noModuleFiles[i].file) = Len(f.file)
             /\ Occurrences(moduleFiles, f) = 1
       /\ IsEs2015Polyfills(f) =>
             /\ Occurrences(moduleFiles, f) = 1
             /\ EntriesOf(noModuleFiles, f) = {}
             /\ f \notin Range(files)
             /\ Cardinality({ i \in DOMAIN actions :
                                /\ actions[i].filename = PathJoin(options.outputPath, f.file)
                                /\ actions[i].optimizeOnly }) = 1
             /\ \A i \in DOMAIN actions :
                   actions[i].optimizeOnly
                     => actions[i].filename = PathJoin(options.outputPath, f.file)

\* The main script, emitted twice, and the modern polyfill were classified.
C24_Witness ==
    /\ Len(emittedFiles) = 3
    /\ emittedFiles[1].name = "main" /\ emittedFiles[2] = emittedFiles[1]
    /\ IsEs2015Polyfills(emittedFiles[3])
    /\ Len(moduleFiles) = 2
    /\ Len(noModuleFiles) = 1
    /\ noModuleFiles[1].file = <<"main", "-es5", ".js">>


-----------------------------------------------------------------------------
(* CommonJsUsageWarnPlugin (common-js-usage-warn-plugin.ts) *)

\* Modules a compilation finishes with, compilations of one plugin instance.
MaxModules == 2
MaxCompilations == 2

\* Requests, as the tokens the plugin's string tests tell apart.
WebpackHotDevServer == <<"webpack", "/", "hot", "/", "dev-server">>
LocalesPrefix == <<"@", "angular", "/", "common", "/", "locales", "/">>
LodashIsEmpty == <<"lodash", "/", "isEmpty">>
ScopedSub == <<"@", "scope", "/", "pkg", "/", "sub">>
AppRequest == <<"src", "/", "app.ts">>
DevServerClient == <<"node_modules", "/", "webpack-dev-server", "/", "client">>

RawRequests ==
    { <<>>,                                      \* rawRequest undefined
      << <<>> >>,                                \* ''
      << <<".", "/", "app">> >>,                 \* './app'
      << <<"/", "src", "/", "x">> >>,            \* '/src/x'
      << WebpackHotDevServer >>,
      << LocalesPrefix \o <<"fr">> >>,
      << LodashIsEmpty >>,
      << <<"moment">> >>,
      << ScopedSub >> }

\* options.allowedDepedencies of the instance.
AllowedOptions ==
    { {}, { <<"lodash">> }, { LodashIsEmpty, <<"@", "scope", "/", "pkg">> } }

\* The first n '/'-separated segments of a request: split('/', n).join('/').
RECURSIVE SplitJoin(_, _)
SplitJoin(request, n) ==
    IF request = <<>> THEN <<>>
    ELSE IF Head(request) = "/"
         THEN IF n = 1 THEN <<>> ELSE <<"/">> \o SplitJoin(Tail(request), n - 1)
         ELSE <<Head(request)>> \o SplitJoin(Tail(request), n)

\* common-js-usage-warn-plugin.ts:117-123
rawRequestToPackageName(rawRequest) ==
    IF StartsWith(rawRequest, <<"@">>) THEN SplitJoin(rawRequest, 2)
    ELSE SplitJoin(rawRequest, 1)

\* path.isAbsolute of a request.
isAbsolute(request) == StartsWith(request, <<"/">>)

\* A loop that skips only a module without a request.
SkipsOnlyMissing(allowed, rawRequest) == rawRequest = <<>> \/ rawRequest[1] = <<>>

\* The condition of the first `continue` (common-js-usage-warn-plugin.ts:50-57).
SkipsModule(allowed, rawRequest) ==
    \/ rawRequest = <<>>
    \/ rawRequest[1] = <<>>
    \/ StartsWith(rawRequest[1], <<".">>)
    \/ isAbsolute(rawRequest[1])
    \/ rawRequest[1] \in allowed
    \/ rawRequestToPackageName(rawRequest[1]) \in allowed
    \/ StartsWith(rawRequest[1], LocalesPrefix)

CommonJsOrAmd == { "CommonJsRequireDependency", "AMDDefineDependency" }

\* common-js-usage-warn-plugin.ts:103-115
RECURSIVE hasCommonJsDependencies(_, _)
hasCommonJsDependencies(dependencies, checkParentModules) ==
    \E i \in DOMAIN dependencies :
       \/ dependencies[i].kind \in CommonJsOrAmd
       \/ /\ checkParentModules
          /\ dependencies[i].module # <<>>
          /\ hasCommonJsDependencies(dependencies[i].module[1].dependencies, FALSE)

\* issuer?.issuer?.dependencies (common-js-usage-warn-plugin.ts:72), <<>> when
\* undefined.
ParentDependencies(issuer) ==
    IF issuer = <<>> THEN <<>>
    ELSE IF issuer[1].issuer = <<>> THEN <<>>
    ELSE << issuer[1].issuer[1].dependencies >>

\* The loop of common-js-usage-warn-plugin.ts:78-81.
RECURSIVE MainIssuer(_)
MainIssuer(issuer) ==
    IF issuer = <<>> THEN <<>>
    ELSE IF issuer[1].issuer = <<>> THEN issuer
    ELSE MainIssuer(issuer[1].issuer)

\* issuer?.userRequest?.includes('webpack-dev-server')
FromWebpackDevServer(issuer) ==
    /\ issuer # <<>>
    /\ issuer[1].userRequest # <<>>
    /\ "webpack-dev-server" \in Range(issuer[1].userRequest[1])

\* The condition of common-js-usage-warn-plugin.ts:86.
FromMainEntryPoint(issuer) ==
    /\ MainIssuer(issuer) # <<>>
    /\ MainIssuer(issuer)[1].name = <<"main">>
    /\ ~FromWebpackDevServer(issuer)

\* The text of common-js-usage-warn-plugin.ts:87-89: what varies in it.
WarningText(issuer, rawRequest) ==
    << IF issuer = <<>> \/ issuer[1].userRequest = <<>> THEN <<Undefined>>
       ELSE issuer[1].userRequest[1],
       "depends on", rawRequest >>

\* The warning the loop body reaches for a module, <<>> if it reaches none
\* (common-js-usage-warn-plugin.ts:49-90).
WarningFor(allowed, m) ==
    IF SkipsModule(allowed, m.rawRequest) THEN <<>>
    ELSE IF ~hasCommonJsDependencies(m.dependencies, FALSE) THEN <<>>
    ELSE IF /\ ParentDependencies(m.issuer) # <<>>
            /\ hasCommonJsDependencies(ParentDependencies(m.issuer)[1], TRUE)
         THEN <<>>
    ELSE IF FromMainEntryPoint(m.issuer)
         THEN << WarningText(m.issuer, m.rawRequest[1]) >>
    ELSE <<>>

\* A set of shown warnings that forgets what it is given.
ShownWarningsKept(shown, warning) == shown

\* this.shownWarnings.add(warning) (common-js-usage-warn-plugin.ts:94)
ShownWarningsAdd(shown, warning) == shown \cup {warning}

\* Dependencies and issuers of the modules of a compilation.
Dep(kind) == [kind |-> kind, module |-> <<>>]
Harmony == Dep("HarmonyImportDependency")
DepOnCommonJsModule ==
    [kind |-> "HarmonyImportDependency",
     module |-> << [dependencies |-> << Dep("CommonJsRequireDependency") >>] >>]
DependencyLists ==
    { <<>>, <<Harmony>>, <<Harmony, Dep("CommonJsRequireDependency")>>,
      <<Dep("AMDDefineDependency")>> }

Issuer(name, userRequest, dependencies, issuer) ==
    [name |-> name, userRequest |-> userRequest, dependencies |-> dependencies,
     issuer |-> issuer]
EntryPoint(name, dependencies) == Issuer(name, <<AppRequest>>, dependencies, <<>>)
MainEntry == EntryPoint(<<"main">>, <<Harmony>>)
Issuers ==
    { <<>>,
      << MainEntry >>,
      << EntryPoint(<<"polyfills">>, <<Harmony>>) >>,
      << EntryPoint(<<>>, <<Harmony>>) >>,
      << Issuer(<<>>, <<AppRequest>>, <<Harmony>>, <<MainEntry>>) >>,
      << Issuer(<<>>, <<AppRequest>>, <<Harmony>>,
                << EntryPoint(<<"main">>, <<Dep("CommonJsRequireDependency")>>) >>) >>,
      << Issuer(<<>>, <<AppRequest>>, <<Harmony>>,
                << EntryPoint(<<"main">>, <<DepOnCommonJsModule>>) >>) >>,
      << Issuer(<<>>, <<DevServerClient>>, <<Harmony>>, <<MainEntry>>) >>,
      << Issuer(<<>>, <<>>, <<Harmony>>, <<MainEntry>>) >>,
      << Issuer(<<>>, <<AppRequest>>, <<Harmony>>,
                << Issuer(<<>>, <<AppRequest>>, <<Harmony>>, <<MainEntry>>) >>) >> }

\* Every request under the main entry point with a CommonJS dependency, and
\* two requests that are not skipped with every dependency list and issuer.
Modules ==
    { [rawRequest |-> r, dependencies |-> <<Harmony, Dep("CommonJsRequireDependency")>>,
       issuer |-> <<MainEntry>>] : r \in RawRequests }
    \cup
    { [rawRequest |-> r, dependencies |-> d, issuer |-> i] :
        r \in { <<LodashIsEmpty>>, <<ScopedSub>> }, d \in DependencyLists, i \in Issuers }

\* The build whose webpack configuration holds the plugin.
PluginBuildOptions == CHOOSE o \in OptionSets : TRUE

\* new CommonJsUsageWarnPlugin(options) (common-js-usage-warn-plugin.ts:35-44)
PluginInit ==
    /\ options = PluginBuildOptions
    /\ InitLocals
    /\ pool = NoPool /\ poolLog = NoPoolLog
    /\ allowedDepedencies \in { {WebpackHotDevServer} \cup o : o \in AllowedOptions }
    /\ shownWarnings = {}
    /\ compilations = 0 /\ compilationWarnings = <<>> /\ modulesLeft = 0
    /\ module = <<>> /\ addWarningCalls = EmptyBag
    /\ IdleBesidesPlugin

\* compiler.hooks.compilation (common-js-usage-warn-plugin.ts:47): the compiler
\* creates a compilation, which will finish with n modules.
Compilation(n) ==
    /\ compilations < MaxCompilations
    /\ modulesLeft = 0
    /\ compilations' = compilations + 1
    /\ compilationWarnings' = <<>>
    /\ modulesLeft' = n
    /\ module' = <<>>
    /\ UNCHANGED << allowedDepedencies, shownWarnings, addWarningCalls >>
    /\ UNCHANGED << handlerVars, poolVars, besidesPlugin >>

\* One iteration of the loop of finishModules over a module that reaches no
\* warning, or one already shown (common-js-usage-warn-plugin.ts:49-97).
VisitModuleQuietly(m) ==
    /\ modulesLeft > 0
    /\ \/ WarningFor(allowedDepedencies, m) = <<>>
       \/ /\ WarningFor(allowedDepedencies, m) # <<>>
          /\ WarningFor(allowedDepedencies, m)[1] \in shownWarnings
    /\ modulesLeft' = modulesLeft - 1
    /\ module' = <<m>>
    /\ UNCHANGED << allowedDepedencies, shownWarnings, compilations,
                    compilationWarnings, addWarningCalls >>
    /\ UNCHANGED << handlerVars, poolVars, besidesPlugin >>

\* One iteration that adds a warning (common-js-usage-warn-plugin.ts:92-95).
VisitModuleAndWarn(m) ==
    /\ modulesLeft > 0
    /\ WarningFor(allowedDepedencies, m) # <<>>
    /\ LET warning == WarningFor(allowedDepedencies, m)[1] IN
          /\ warning \notin shownWarnings
          /\ compilationWarnings' = Append(compilationWarnings, warning)
          /\ addWarningCalls' = addWarningCalls (+) SetToBag({warning})
          /\ shownWarnings' = ShownWarningsAdd(shownWarnings, warning)
    /\ modulesLeft' = modulesLeft - 1
    /\ module' = <<m>>
    /\ UNCHANGED << allowedDepedencies, compilations >>
    /\ UNCHANGED << handlerVars, poolVars, besidesPlugin >>

PluginNext ==
    \/ \E n \in 0..MaxModules : Compilation(n)
    \/ \E m \in Modules : VisitModuleQuietly(m)
    \/ \E m \in Modules : VisitModuleAndWarn(m)

PluginSpec == PluginInit /\ [][PluginNext]_vars

\* C25: the set of shown warnings lives as long as the plugin instance: over
\* any sequence of compilations a given warning text is added at most once in
\* total, a new compilation leaves the set as it is, and the set never shrinks.
C25_WarningShownOnce ==
    /\ [](\A w \in BagToSet(addWarningCalls) : CopiesIn(w, addWarningCalls) = 1)
    /\ [](BagToSet(addWarningCalls) = shownWarnings)
    /\ [][shownWarnings \subseteq shownWarnings']_vars
    /\ [][compilations' # compilations => shownWarnings' = shownWarnings]_vars

\* The second compilation visited a module whose warning the first had shown.
C25_Witness ==
    /\ compilations = 2
    /\ compilationWarnings = <<>>
    /\ module # <<>>
    /\ WarningFor(allowedDepedencies, module[1]) # <<>>
    /\ WarningFor(allowedDepedencies, module[1])[1] \in shownWarnings
    /\ CopiesIn(WarningFor(allowedDepedencies, module[1])[1], addWarningCalls) = 1


\* The loop added a warning in this step.
WarningAdded == Len(compilationWarnings') > Len(compilationWarnings)

\* The module's request is missing, relative, absolute, allowed in full or by
\* its package name, or a locale of '@angular/common'.
ExemptRequest(m) ==
    \/ m.rawRequest = <<>>
    \/ m.rawRequest[1] = <<>>
    \/ m.rawRequest[1][1] \in { ".", "/" }
    \/ m.rawRequest[1] \in allowedDepedencies
    \/ rawRequestToPackageName(m.rawRequest[1]) \in allowedDepedencies
    \/ m.rawRequest[1] = WebpackHotDevServer
    \/ /\ Len(m.rawRequest[1]) >= Len(LocalesPrefix)
       /\ \A i \in DOMAIN LocalesPrefix : m.rawRequest[1][i] = LocalesPrefix[i]

\* The module has a CommonJS or AMD dependency, the issuer's parent has none
\* itself, the top-level issuer is 'main' and the issuer's request does not
\* come from 'webpack-dev-server'.
WarnableModule(m) ==
    /\ \E d \in Range(m.dependencies) : d.kind \in CommonJsOrAmd
    /\ m.issuer # <<>>
    /\ m.issuer[1].issuer # <<>> =>
          \A d \in Range(m.issuer[1].issuer[1].dependencies) : d.kind \notin CommonJsOrAmd
    /\ MainIssuer(m.issuer)[1].name = <<"main">>
    /\ m.issuer[1].userRequest # <<>> =>
          "webpack-dev-server" \notin Range(m.issuer[1].userRequest[1])

\* C26: no warning is added for a module whose request is missing, relative,
\* absolute, allowed (in full or by package name, 'webpack/hot/dev-server'
\* always) or an '@angular/common/locales/' import; a warning is added only
\* for a module with a CommonJS or AMD dependency whose issuer's parent has
\* none, whose top-level issuer is 'main' and whose issuer's request does not
\* come from 'webpack-dev-server'.
C26_WarnsOnlyUnexemptCommonJsFromMain ==
    /\ [](WebpackHotDevServer \in allowedDepedencies)
    /\ [][WarningAdded =>
            /\ module' # <<>>
            /\ ~ExemptRequest(module'[1])
            /\ WarnableModule(module'[1])
            /\ compilationWarnings' =
                 Append(compilationWarnings,
                        WarningText(module'[1].issuer, module'[1].rawRequest[1]))]_vars

\* A module requested as 'lodash/isEmpty' from a file of the main entry point,
\* with an AMD dependency, got its warning.
C26_Witness ==
    /\ module # <<>>
    /\ module[1].rawRequest = <<LodashIsEmpty>>
    /\ module[1].dependencies = <<Dep("AMDDefineDependency")>>
    /\ module[1].issuer # <<>>
    /\ module[1].issuer[1].issuer = <<MainEntry>>
    /\ compilationWarnings = << <<AppRequest, "depends on", LodashIsEmpty>> >>


-----------------------------------------------------------------------------
(* initialize (index.ts:162-211) *)

\* Asset patterns of one build.
MaxAssets == 2

\* The normalized output of an asset pattern, as path tokens.
AssetOutputs ==
    { <<"/">>, <<"assets", "/">>, <<".", "well-known", "/">>,
      <<"..", "/", "shared", "/">>, <<"..", "data", "/">> }

AssetLists == UNION { [1..n -> AssetOutputs] : n \in 0..MaxAssets }

InitializeInputs ==
    [watch : BOOLEAN, assets : AssetLists, deleteOutputPath : BOOLEAN,
     transform : {"none", "completes", "throws"}]

AssetError == "An asset cannot be written to a location outside of the output path."

\* A check that lets every output through.
InsideOutputPath(output) == FALSE

\* output.startsWith('..') (index.ts:194)
OutsideOutputPath(output) == StartsWith(output, <<"..">>)

\* index.ts:173: the assets handed to the configuration generator.
AdjustedAssets(opts) == IF opts.watch THEN opts.assets ELSE <<>>

\* The configuration generator processes the assets it is handed and rejects
\* one written outside of the output path.
ConfigGeneratorRejects(assets) == \E i \in DOMAIN assets : StartsWith(assets[i], <<"..">>)

\* index.ts:186: the builder validates the assets it processes itself.
ValidatesAssets(opts) == Len(opts.assets) > 0 /\ Len(AdjustedAssets(opts)) = 0

InitializeInit ==
    /\ options = PluginBuildOptions
    /\ InitLocals
    /\ pool = NoPool /\ poolLog = NoPoolLog
    /\ IdleBesidesInitialize
    /\ initOptions \in InitializeInputs
    /\ initPc = "start" /\ initDone = {} /\ outputDir = "present" /\ initResult = <<>>

initializeFrame == << handlerVars, poolVars, besidesInitialize, initOptions >>

InitializeFails(message) ==
    /\ initPc' = "failed"
    /\ initResult' = << [error |-> message] >>
    /\ UNCHANGED << initDone, outputDir >>
    /\ UNCHANGED initializeFrame

\* index.ts:175-180: the configuration is built.
BuildConfig ==
    /\ initPc = "start"
    /\ ~ConfigGeneratorRejects(AdjustedAssets(initOptions))
    /\ initPc' = "configured"
    /\ initDone' = initDone \cup {"config"}
    /\ UNCHANGED << outputDir, initResult >>
    /\ UNCHANGED initializeFrame

\* index.ts:180: building the configuration throws.
BuildConfigThrows ==
    /\ initPc = "start"
    /\ \/ /\ ConfigGeneratorRejects(AdjustedAssets(initOptions))
          /\ InitializeFails(AssetError)
       \/ InitializeFails("configuration error")

\* index.ts:186-198: no asset to validate, or every asset passes.
ValidateAssets ==
    /\ initPc = "configured"
    /\ ValidatesAssets(initOptions) =>
          \A i \in DOMAIN initOptions.assets : ~OutsideOutputPath(initOptions.assets[i])
    /\ initPc' = "validated"
    /\ initDone' = IF ValidatesAssets(initOptions) THEN initDone \cup {"validate"}
                   ELSE initDone
    /\ UNCHANGED << outputDir, initResult >>
    /\ UNCHANGED initializeFrame

\* index.ts:194-196
ValidateAssetsThrows ==
    /\ initPc = "configured"
    /\ ValidatesAssets(initOptions)
    /\ \E i \in DOMAIN initOptions.assets : OutsideOutputPath(initOptions.assets[i])
    /\ InitializeFails(AssetError)

\* index.ts:200-203: the transform, if there is one, completes.
TransformConfig ==
    /\ initPc = "validated"
    /\ initOptions.transform # "throws"
    /\ initPc' = "transformed"
    /\ initDone' = IF initOptions.transform = "completes" THEN initDone \cup {"transform"}
                   ELSE initDone
    /\ UNCHANGED << outputDir, initResult >>
    /\ UNCHANGED initializeFrame

\* index.ts:202: the transform throws.
TransformConfigThrows ==
    /\ initPc = "validated"
    /\ initOptions.transform = "throws"
    /\ InitializeFails("transform error")

\* index.ts:205-210: the output directory is deleted if asked, and the
\* configuration returned.
DeleteAndReturn ==
    /\ initPc = "transformed"
    /\ outputDir' = IF initOptions.deleteOutputPath THEN "deleted" ELSE outputDir
    /\ initDone' = IF initOptions.deleteOutputPath THEN initDone \cup {"delete"}
                   ELSE initDone
    /\ initPc' = "returned"
    /\ initResult' =
         << [config |-> IF initOptions.transform = "completes" THEN "transformedConfig"
                        ELSE "config"] >>
    /\ UNCHANGED initializeFrame

InitializeNext ==
    \/ BuildConfig
    \/ BuildConfigThrows
    \/ ValidateAssets
    \/ ValidateAssetsThrows
    \/ TransformConfig
    \/ TransformConfigThrows
    \/ DeleteAndReturn

InitializeSpec == InitializeInit /\ [][InitializeNext]_vars

InitializeFairSpec == InitializeSpec /\ WF_vars(InitializeNext)

\* An asset of the call is written outside of the output path.
SomeAssetOutside ==
    \E i \in DOMAIN initOptions.assets : initOptions.assets[i][1] = ".."

-----------------------------------------------------------------------------
(* Properties of the index stage (index.ts:700-760) *)

\* The locales of outputPaths before position i.
LocalesBefore(i) == { OutputLocales(options)[j] : j \in 1..(i - 1) }

\* The index stage failed.
IndexStageFailed == thrown # <<>> /\ thrown[1].at = "index"

\* C28: after the asset copy, the index and service-worker steps run locale by
\* locale in the order of outputPaths; the first locale whose step throws ends
\* the build with {success: false, error: <message>}, no later locale is
\* processed, and what was written for the earlier locales remains.
C28_LocalesInOrderUntilFirstFailure ==
    /\ [](pc = "index" =>
            /\ postOptions # <<>>
            /\ assetsCopied = CopiesAssets(options, postOptions[1])
            /\ localeIdx \in 1..Len(OutputLocales(options))
            /\ indexWritten = IF postOptions[1].index THEN LocalesBefore(localeIdx) ELSE {})
    /\ [](IndexStageFailed =>
            /\ pc = "done"
            /\ result = ErrorResult(<<mapErrorToMessage(thrown[1].err)>>)
            /\ localeIdx \in 1..Len(OutputLocales(options))
            /\ indexWritten \subseteq LocalesBefore(localeIdx + 1)
            /\ postOptions[1].index => LocalesBefore(localeIdx) \subseteq indexWritten)
    /\ [][pc = "index" =>
            /\ indexWritten \subseteq indexWritten'
            /\ indexWritten' \subseteq indexWritten \cup {OutputLocales(options)[localeIdx]}
            /\ localeIdx' \in {localeIdx, localeIdx + 1}
            /\ (pc' = "index" => localeIdx' = localeIdx + 1)]_vars
    /\ [][IndexStageFailed => UNCHANGED << indexWritten, localeIdx, result >>]_vars

\* The second locale's service worker step failed after its index and the
\* first locale's were written, in a build that copied its assets.
C28_Witness ==
    /\ IndexStageFailed
    /\ assetsCopied
    /\ localeIdx = 2
    /\ Len(OutputLocales(options)) = 2
    /\ indexWritten = { OutputLocales(options)[1], OutputLocales(options)[2] }
    /\ result.errorKey /\ ~result.success


-----------------------------------------------------------------------------
(* The warnings of a stats object (webpack/utils/stats: statsWarningsToString,
   statsHasWarnings) *)

\* Warnings of a compilation, warnings of a child compilation.
MaxWarnings == 2
MaxChildWarnings == 1

\* Texts, as the tokens the regular expressions tell apart.
LicenseText ==
    <<"multiple assets emit different content", " to the same filename ",
      "3rdpartylicenses.txt">>
SystemImportText == <<"System.import() is deprecated and will be removed soon">>
OrdinaryText == <<"export 'x' was not found in './y'">>
PrefixedText == <<"Warning", ": budget exceeded">>
WarningTexts == { LicenseText, SystemImportText, OrdinaryText, PrefixedText }

StringWarning(text) == [type |-> "string", text |-> text]
Diagnostic(message, file, moduleName, loc) ==
    [type |-> "object", message |-> message, file |-> file, moduleName |-> moduleName,
     loc |-> loc]

StatsWarnings ==
    { StringWarning(t) : t \in WarningTexts }
    \cup { Diagnostic(t, <<>>, <<>>, <<>>) : t \in WarningTexts }
    \cup { Diagnostic(OrdinaryText, <<"src/app.ts">>, <<>>, <<"3:1">>),
           Diagnostic(SystemImportText, <<>>, <<"./src/app.ts">>, <<>>) }

WarningLists(n) == UNION { [1..k -> StatsWarnings] : k \in 0..n }

\* json.children: undefined (<<>>), or one child compilation.
StatsChildren ==
    { <<>> } \cup { << <<[warnings |-> w]>> >> : w \in WarningLists(MaxChildWarnings) }

StatsInputs ==
    [json : [warnings : WarningLists(MaxWarnings), children : StatsChildren],
     colors : BOOLEAN]

\* What a regular expression's test sees of its argument: the string itself,
\* '[object Object]' for a diagnostic object.
TestedText(warning) ==
    IF warning.type = "string" THEN warning.text ELSE <<"[object Object]">>

\* The two expressions of ERRONEOUS_WARNINGS_FILTER
\* (optimize-css-webpack-plugin.ts:288-292) on a text.
MatchesErroneous(text) ==
    \/ \E i, j \in DOMAIN text :
          /\ i < j
          /\ text[i] = "multiple assets emit different content"
          /\ text[j] = "3rdpartylicenses.txt"
    \/ \E i \in DOMAIN text :
          text[i] = "System.import() is deprecated and will be removed soon"

\* optimize-css-webpack-plugin.ts:287-293, on a string.
ERRONEOUS_WARNINGS_FILTER(text) == ~MatchesErroneous(text)

\* warnings.filter(ERRONEOUS_WARNINGS_FILTER).length
\* (optimize-css-webpack-plugin.ts:395-396): the filter is given the warning.
Kept(list) ==
    Len(SelectSeq(list, LAMBDA w : ERRONEOUS_WARNINGS_FILTER(TestedText(w))))

\* optimize-css-webpack-plugin.ts:394-397: a number or a boolean.
statsHasWarnings(json) ==
    IF Kept(json.warnings) # 0 THEN [type |-> "number", number |-> Kept(json.warnings)]
    ELSE [type |-> "boolean",
          boolean |-> /\ json.children # <<>>
                      /\ \E i \in DOMAIN json.children[1] :
                            Kept(json.children[1][i].warnings) # 0]

Truthy(v) == IF v.type = "number" THEN v.number # 0 ELSE v.boolean

\* x coloured, when colours are on.
Coloured(colors, colour, x) == IF colors THEN << <<colour, x>> >> ELSE <<x>>

\* optimize-css-webpack-plugin.ts:308-314
RECURSIVE Flatten(_)
Flatten(lists) == IF lists = <<>> THEN <<>> ELSE Head(lists) \o Flatten(Tail(lists))

AllWarnings(json) ==
    json.warnings \o
      (IF json.children = <<>> THEN <<>>
       ELSE Flatten([i \in DOMAIN json.children[1] |-> json.children[1][i].warnings]))

\* One iteration of optimize-css-webpack-plugin.ts:317-339: what it appends.
WarningOutput(warning, colors) ==
    IF warning.type = "string"
    THEN IF ~ERRONEOUS_WARNINGS_FILTER(warning.text) THEN <<>>
         ELSE Coloured(colors, "yellowBright", <<"Warning: ">> \o warning.text \o <<"\n\n">>)
    ELSE IF ~ERRONEOUS_WARNINGS_FILTER(warning.message) THEN <<>>
    ELSE LET file == IF warning.file # <<>> THEN warning.file ELSE warning.moduleName IN
         (IF file # <<>>
          THEN Coloured(colors, "cyan", file[1])
               \o (IF warning.loc # <<>>
                   THEN <<":">> \o Coloured(colors, "yellowBright", warning.loc[1])
                   ELSE <<>>)
               \o <<" - ">>
          ELSE <<>>)
         \o (IF Head(warning.message) \notin {"Warning", "warning"}
             THEN Coloured(colors, "yellow", "Warning: ")
             ELSE <<>>)
         \o warning.message \o <<"\n\n">>

\* optimize-css-webpack-plugin.ts:302-347; '' is <<>>.
statsWarningsToString(json, colors) ==
    LET all == AllWarnings(json)
        output == Flatten([i \in DOMAIN all |-> WarningOutput(all[i], colors)])
    IN IF output # <<>> THEN <<"\n">> \o output ELSE <<>>

ReportInit ==
    /\ options = PluginBuildOptions
    /\ InitLocals
    /\ pool = NoPool /\ poolLog = NoPoolLog
    /\ IdleBesidesReport
    /\ statsInput \in StatsInputs
    /\ statsReport = <<>>

\* index.ts:670-672: the warnings of the stats object are logged if it has any.
LogWarnings ==
    /\ statsReport = <<>>
    /\ statsReport' =
         << [hasWarnings |-> statsHasWarnings(statsInput.json),
             warningsToString |-> statsWarningsToString(statsInput.json, statsInput.colors),
             logged |-> IF Truthy(statsHasWarnings(statsInput.json))
                        THEN << statsWarningsToString(statsInput.json, statsInput.colors) >>
                        ELSE <<>>] >>
    /\ UNCHANGED statsInput
    /\ UNCHANGED << handlerVars, poolVars, besidesReport >>

ReportNext == LogWarnings

ReportSpec == ReportInit /\ [][ReportNext]_vars

\* C29: for every stats object statsHasWarnings is truthy exactly when
\* statsWarningsToString returns a non-empty string, whether the warnings are
\* strings or diagnostic objects and whether or not the filter of erroneous
\* warnings matches them.
C29_HasWarningsIffTextNonEmpty ==
    statsReport # <<>> =>
       (Truthy(statsReport[1].hasWarnings) <=> statsReport[1].warningsToString # <<>>)

\* The equivalence for the stats objects whose warnings are all strings.
HasWarningsIffTextNonEmptyForStrings ==
    (/\ statsReport # <<>>
     /\ \A i \in DOMAIN AllWarnings(statsInput.json) :
           AllWarnings(statsInput.json)[i].type = "string")
    => (Truthy(statsReport[1].hasWarnings) <=> statsReport[1].warningsToString # <<>>)

\* A text is never produced without statsHasWarnings being truthy.
TextNonEmptyOnlyIfHasWarnings ==
    (statsReport # <<>> /\ statsReport[1].warningsToString # <<>>)
       => Truthy(statsReport[1].hasWarnings)


-----------------------------------------------------------------------------
(* createWebpackInputHost (build_ng_packagr/src/build/index.ts:87-139) *)

\* Paths of the input file system.
MaxPaths == 3

HostPaths == 1..MaxPaths

\* What statSync finds at a path: a file, a directory, nothing (it throws
\* ENOENT) or a path it may not read (it throws EACCES).
PathKinds == { "file", "directory", "missing", "unreadable" }

Returned(value) == [kind |-> "value", value |-> value]
Failed(message) == [kind |-> "error", message |-> message]
NotSupported == Failed("Not supported.")

\* inputFileSystem.statSync(path): the Stats, or the code of what it throws.
statSync(fs, path) ==
    CASE fs[path] = "file" -> Returned([isFile |-> TRUE, isDirectory |-> FALSE])
      [] fs[path] = "directory" -> Returned([isFile |-> FALSE, isDirectory |-> TRUE])
      [] fs[path] = "missing" -> Failed("ENOENT")
      [] OTHER -> Failed("EACCES")

\* A stat that rethrows whatever statSync throws.
statRethrowing(fs, path) ==
    IF statSync(fs, path).kind = "value" THEN Returned(<<statSync(fs, path).value>>)
    ELSE statSync(fs, path)

\* build_ng_packagr/src/build/index.ts:129-138; null is <<>>.
stat(fs, path) ==
    IF statSync(fs, path).kind = "value" THEN Returned(<<statSync(fs, path).value>>)
    ELSE IF statSync(fs, path).message = "ENOENT" THEN Returned(<<>>)
    ELSE statSync(fs, path)

\* build_ng_packagr/src/build/index.ts:117-119
exists(fs, path) ==
    IF stat(fs, path).kind = "error" THEN stat(fs, path)
    ELSE Returned(stat(fs, path).value # <<>>)

\* build_ng_packagr/src/build/index.ts:121-123
isDirectory(fs, path) ==
    IF stat(fs, path).kind = "error" THEN stat(fs, path)
    ELSE Returned(IF stat(fs, path).value = <<>> THEN FALSE
                  ELSE stat(fs, path).value[1].isDirectory)

\* build_ng_packagr/src/build/index.ts:125-127
isFile(fs, path) ==
    IF stat(fs, path).kind = "error" THEN stat(fs, path)
    ELSE Returned(IF stat(fs, path).value = <<>> THEN FALSE
                  ELSE stat(fs, path).value[1].isFile)

\* build_ng_packagr/src/build/index.ts:102-106: readFileSync of the path.
read(fs, path) ==
    CASE fs[path] = "file" -> Returned("data")
      [] fs[path] = "directory" -> Failed("EISDIR")
      [] fs[path] = "missing" -> Failed("ENOENT")
      [] OTHER -> Failed("EACCES")

HostInit ==
    /\ options = PluginBuildOptions
    /\ InitLocals
    /\ pool = NoPool /\ poolLog = NoPoolLog
    /\ IdleBesidesHost
    /\ inputFileSystem \in [HostPaths -> PathKinds]
    /\ hostCall = NoHostCall

\* The record of a call; no call reaches a method that changes the file system.
HostCalled(op, path, outcome) == [op |-> op, path |-> path, outcome |-> outcome]
hostFrame == << inputFileSystem, handlerVars, poolVars, besidesHost >>

\* build_ng_packagr/src/build/index.ts:90-92
HostWrite(path) ==
    /\ hostCall' = HostCalled("write", path, NotSupported)
    /\ UNCHANGED hostFrame

\* build_ng_packagr/src/build/index.ts:94-96
HostDelete(path) ==
    /\ hostCall' = HostCalled("delete", path, NotSupported)
    /\ UNCHANGED hostFrame

\* build_ng_packagr/src/build/index.ts:98-100
HostRename(path, to) ==
    /\ hostCall' = HostCalled("rename", path, NotSupported)
    /\ UNCHANGED hostFrame

HostRead(path) ==
    /\ hostCall' = HostCalled("read", path, read(inputFileSystem, path))
    /\ UNCHANGED hostFrame

HostStat(path) ==
    /\ hostCall' = HostCalled("stat", path, stat(inputFileSystem, path))
    /\ UNCHANGED hostFrame

HostExists(path) ==
    /\ hostCall' = HostCalled("exists", path, exists(inputFileSystem, path))
    /\ UNCHANGED hostFrame

HostIsDirectory(path) ==
    /\ hostCall' = HostCalled("isDirectory", path, isDirectory(inputFileSystem, path))
    /\ UNCHANGED hostFrame

HostIsFile(path) ==
    /\ hostCall' = HostCalled("isFile", path, isFile(inputFileSystem, path))
    /\ UNCHANGED hostFrame

HostNext ==
    \/ \E path \in HostPaths : HostWrite(path)
    \/ \E path \in HostPaths : HostDelete(path)
    \/ \E path, to \in HostPaths : HostRename(path, to)
    \/ \E path \in HostPaths : HostRead(path)
    \/ \E path \in HostPaths : HostStat(path)
    \/ \E path \in HostPaths : HostExists(path)
    \/ \E path \in HostPaths : HostIsDirectory(path)
    \/ \E path \in HostPaths : HostIsFile(path)

HostSpec == HostInit /\ [][HostNext]_vars

\* The last call was op on a path of the given kind.
Called(ops, kinds) ==
    /\ hostCall.op \in ops
    /\ inputFileSystem[hostCall.path] \in kinds

\* C30: the host is read-only: every write, delete and rename fails with
\* 'Not supported.' and no call changes the input file system; stat returns
\* null for a missing path and rethrows any other error, so exists, isFile and
\* isDirectory are all false for a missing path.
C30_ReadOnlyHost ==
    /\ [][inputFileSystem' = inputFileSystem]_vars
    /\ [](Called({"write", "delete", "rename"}, PathKinds) =>
            hostCall.outcome = Failed("Not supported."))
    /\ [](Called({"stat"}, {"missing"}) =>
            hostCall.outcome.kind = "value" /\ hostCall.outcome.value = <<>>)
    /\ [](Called({"stat", "exists", "isFile", "isDirectory"}, {"unreadable"}) =>
            hostCall.outcome = Failed("EACCES"))
    /\ [](Called({"exists", "isFile", "isDirectory"}, {"missing"}) =>
            hostCall.outcome.kind = "value" /\ hostCall.outcome.value = FALSE)

\* isFile was asked about a missing path, beside a file and an unreadable path.
C30_Witness ==
    /\ Called({"isFile"}, {"missing"})
    /\ hostCall.outcome.kind = "value"
    /\ "file" \in Range(inputFileSystem)
    /\ "unreadable" \in Range(inputFileSystem)

=============================================================================
